---- MODULE Spec2Model ----
(***************************************************************************)
(* The RouteGuide service of eventuals-grpc-examples.                      *)
(*                                                                         *)
(* The repository holds four builds of the same server:                    *)
(*   "eventuals"  route_guide/route_guide_eventuals_server.cc              *)
(*                (Synchronized(...) around scan and append)               *)
(*   "handler"    route_guide/route_guide_server.cc (Server::Handler,      *)
(*                std::unique_lock<std::mutex> lock(mu_))                  *)
(*   "callback"   route_guide/route_guide_client.cc:455-683 (Server::Serve *)
(*                callbacks, std::unique_lock<std::mutex> lock(mu_))       *)
(*   "plain"      unnamed/part_002 (Server::Handler, no mutex)             *)
(* The variable `variant` records which build is running.  The shared      *)
(* state is feature_list_ and received_notes_; every call owns its own     *)
(* record (chat[s] for a RouteChat call, route[c] for a RecordRoute call,  *)
(* feat[g] for a GetFeature call, list[l] for a ListFeatures call).        *)
(***************************************************************************)
EXTENDS Integers, Sequences, FiniteSets, TLC

\* ------------------------------------------------------------------ bounds
\* RouteChat calls the server may accept.
NumSessions == 2
\* Calls of each other operation (RecordRoute, GetFeature, ListFeatures) the
\* server may accept.
NumCalls == 2
\* Calls of all operations together the server may accept.
MaxAccepted == 2
\* Inbound messages (notes, points and requests) over all calls.
MaxInbound == 3
\* Latest reading of system_clock, in ticks.
MaxTime == 2
\* Clock ticks in one second.
TicksPerSec == 2

Sessions == 1 .. NumSessions
Calls == 1 .. NumCalls

\* ---------------------------------------------------------------- messages
Point(lat, lon) == [latitude |-> lat, longitude |-> lon]

Feature(name, location) == [name |-> name, location |-> location]

RouteNote(location, message) == [location |-> location, message |-> message]

RouteSummary(pc, fc, d, t) ==
    [point_count |-> pc, feature_count |-> fc, distance |-> d, elapsed_time |-> t]

Rectangle(lo, hi) == [lo |-> lo, hi |-> hi]

\* The points the clients send: coordinates are int32 counts of 1e-7 degree.
Points == {Point(0, 0), Point(0, 60), Point(60, 0)}

\* The rectangles the clients send, corners in either order.
Rectangles ==
    {Rectangle(lo, hi) : lo, hi \in Points \cup {Point(60, 60)}}

\* The notes the clients send: two at one location, one next to it.
Notes ==
    { RouteNote(Point(0, 0), "a"), RouteNote(Point(0, 0), "b"),
      RouteNote(Point(0, 60), "a") }

\* The databases ParseDb may have loaded.
FeatureLists ==
    { <<>>,
      <<Feature("Tunnel", Point(0, 60)), Feature("", Point(60, 0)),
        Feature("Bridge", Point(0, 60)), Feature("Pier", Point(60, 0))>>,
      <<Feature("Pier", Point(60, 0)), Feature("", Point(60, 0))>> }

Variants == {"eventuals", "handler", "callback", "plain"}

NoNote == [location |-> Point(0, 0), message |-> "<none>"]
NoSummary == RouteSummary(-1, -1, -1, -1)
NoFeature == Feature("<none>", Point(0, 0))
NoRectangle == Rectangle(Point(0, 0), Point(0, 0))

VARIABLES
    variant,          \* which build of the server runs
    feature_list_,    \* RouteGuideImpl::feature_list_
    received_notes_,  \* RouteGuideImpl::received_notes_
    stale,            \* the vector's slots behind its end that hold notes
    mu_,              \* holder of the Notes Log lock, 0 when free
    chat,             \* the RouteChat calls
    route,            \* the RecordRoute calls
    feat,             \* the GetFeature calls
    list,             \* the ListFeatures calls
    client,           \* the client program: its build, where main stands
    call,             \* the client's side of the call it has outstanding
    thr               \* the threads of the callback client inside one call

\* What no step of the server writes.
client_vars == <<client, call, thr>>

vars ==
    <<variant, feature_list_, received_notes_, stale, mu_, chat, route, feat,
      list, client, call, thr>>

\* --------------------------------------------------------- Feature Store
\* The longitude comparison left out of the lookup.
RECURSIVE GetFeatureNameByLatitude(_, _)
GetFeatureNameByLatitude(point, feature_list) ==
    IF feature_list = <<>> THEN ""
    ELSE LET f == Head(feature_list) IN
         IF f.location.latitude = point.latitude
         THEN f.name
         ELSE GetFeatureNameByLatitude(point, Tail(feature_list))

\* A placeholder name answered when the store is empty.
GetFeatureNameOrUnknown(point, feature_list) ==
    LET hits == {i \in 1 .. Len(feature_list) :
                    /\ feature_list[i].location.latitude = point.latitude
                    /\ feature_list[i].location.longitude = point.longitude}
    IN  IF feature_list = <<>> THEN "unknown"
        ELSE IF hits = {} THEN ""
        ELSE feature_list[CHOOSE i \in hits : \A j \in hits : i <= j].name

\* Entries without a name passed over by the lookup.
GetFeatureNameSkipsUnnamed(point, feature_list) ==
    LET hits == {i \in 1 .. Len(feature_list) :
                    /\ feature_list[i].location.latitude = point.latitude
                    /\ feature_list[i].location.longitude = point.longitude
                    /\ feature_list[i].name # ""}
    IN  IF hits = {} THEN ""
        ELSE feature_list[CHOOSE i \in hits : \A j \in hits : i <= j].name

RECURSIVE GetFeatureName(_, _)
GetFeatureName(point, feature_list) ==
    IF feature_list = <<>> THEN ""
    ELSE LET f == Head(feature_list) IN
         IF f.location.latitude = point.latitude
            /\ f.location.longitude = point.longitude
         THEN f.name
         ELSE GetFeatureName(point, Tail(feature_list))

\* The location left at its default when no entry is found.
GetFeatureStoredLocation(point, feature_list) ==
    LET name == GetFeatureName(point, feature_list) IN
    Feature(name, IF name = "" THEN Point(0, 0) ELSE point)

\* The Feature built by GetFeature.
GetFeature(point, feature_list) ==
    Feature(GetFeatureName(point, feature_list), point)

Min(a, b) == IF a < b THEN a ELSE b
Max(a, b) == IF a > b THEN a ELSE b

\* The bounds taken as exclusive.
InRectangleStrict(f, rectangle) ==
    LET lo == rectangle.lo
        hi == rectangle.hi
        left == Min(lo.longitude, hi.longitude)
        right == Max(lo.longitude, hi.longitude)
        top == Max(lo.latitude, hi.latitude)
        bottom == Min(lo.latitude, hi.latitude)
    IN  /\ f.location.longitude > left
        /\ f.location.longitude < right
        /\ f.location.latitude > bottom
        /\ f.location.latitude < top

\* lo taken as the lower left corner and hi as the upper right one.
InRectangleSorted(f, rectangle) ==
    /\ f.location.longitude >= rectangle.lo.longitude
    /\ f.location.longitude <= rectangle.hi.longitude
    /\ f.location.latitude >= rectangle.lo.latitude
    /\ f.location.latitude <= rectangle.hi.latitude

\* The test of ListFeatures on one entry, with left, right, top and bottom
\* taken from the two corners.
InRectangle(f, rectangle) ==
    LET lo == rectangle.lo
        hi == rectangle.hi
        left == Min(lo.longitude, hi.longitude)
        right == Max(lo.longitude, hi.longitude)
        top == Max(lo.latitude, hi.latitude)
        bottom == Min(lo.latitude, hi.latitude)
    IN  /\ f.location.longitude >= left
        /\ f.location.longitude <= right
        /\ f.location.latitude >= bottom
        /\ f.location.latitude <= top

\* The matching entries written from the end of the store to its front.
WriteMatchingBackwards(feature_list, rectangle) ==
    LET hits == SelectSeq(feature_list, LAMBDA f : InRectangle(f, rectangle))
    IN  [i \in 1 .. Len(hits) |-> hits[Len(hits) + 1 - i]]

\* for (const Feature& f : feature_list_) if (...) call.Write(f);
RECURSIVE WriteMatching(_, _)
WriteMatching(feature_list, rectangle) ==
    IF feature_list = <<>> THEN <<>>
    ELSE LET f == Head(feature_list)
             rest == WriteMatching(Tail(feature_list), rectangle)
         IN  IF InRectangle(f, rectangle) THEN <<f>> \o rest ELSE rest

\* The response is sent by UnaryEpilogue / StreamingEpilogue after the method
\* has returned (eventuals); the other builds send it from the handler.
Epilogue(v) == v = "eventuals"

\* --------------------------------------------------- Distance Calculator
R == 6371000
\* 3.1415926, to four decimals
PiE4 == 31416

RECURSIVE SqrtBetween(_, _, _)
SqrtBetween(n, lo, hi) ==
    IF hi - lo <= 1 THEN lo
    ELSE LET mid == (lo + hi) \div 2 IN
         IF mid * mid <= n THEN SqrtBetween(n, mid, hi)
         ELSE SqrtBetween(n, lo, mid)

\* floor of the square root of a 31-bit number (by bisection below 2^15.5)
ISqrt(n) == SqrtBetween(n, 0, 46341)

\* Micrometres of great circle per 1e-7 degree: R * (pi / 180) * 1e-7 * 1e6.
MicronsPerUnit == ((R \div 100) * PiE4) \div (18 * 10000)

\* The distance measured from the equator instead of from `start`.
GetDistanceFromEquator(start, end) ==
    LET dlat == end.latitude
        dlon == end.longitude - start.longitude
    IN  (MicronsPerUnit * ISqrt((dlat * dlat + dlon * dlon) * 10000)) \div 100

\* GetDistance in micrometres (fixed point for the float the code returns).
\* The sent points lie within 1e-5 degree of the origin, where cos(lat) is 1
\* to float precision and sin x and atan x are x, so the haversine
\* R * 2 * atan2(sqrt(a), sqrt(1 - a)) is R * sqrt(dlat^2 + dlon^2) radians.
GetDistance(start, end) ==
    LET dlat == end.latitude - start.latitude
        dlon == end.longitude - start.longitude
    IN  (MicronsPerUnit * ISqrt((dlat * dlat + dlon * dlon) * 10000)) \div 100

\* ------------------------------------------------------------- RouteChat
\* The critical section left out.
HasLockNever(v) == FALSE

HasLock(v) == v \in {"eventuals", "handler", "callback"}

\* Every build writes inside the scan loop.
BuffersNever(v) == FALSE

\* Echoes are buffered in `notes` and emitted by Iterate after the critical
\* section (eventuals); the other builds call Write inside the scan loop.
Buffers(v) == v = "eventuals"

\* The longitude comparison left out.
SameLatitude(n, note) ==
    n.location.latitude = note.location.latitude

SameLocation(n, note) ==
    /\ n.location.latitude = note.location.latitude
    /\ n.location.longitude = note.location.longitude

\* The new element written over the last one.
PushBackOverwrite(log, size, note) ==
    IF size = 0 THEN <<note>> ELSE [SubSeq(log, 1, size) EXCEPT ![size] = note]

\* std::vector::push_back, second half: construct at the end that was read
\* and advance the end.
PushBackStore(log, size, note) == Append(SubSeq(log, 1, size), note)

NewChat ==
    [pc |-> "none", note |-> NoNote, it |-> 0, end |-> 0, size |-> 0,
     notes |-> <<>>, iter |-> <<>>, out |-> <<>>,
     \* history: the inbound notes read, the outbound length at the last
     \* read and at every read, and the log as it was when the last scan
     \* began
     sent |-> <<>>, mark |-> 0, marks |-> <<>>, before |-> <<>>]

\* out and status are what the call has sent to its client.
NewRoute ==
    [pc |-> "none", point_count |-> 0, feature_count |-> 0, distance |-> 0,
     previous |-> Point(0, 0), start_time |-> 0,
     summary |-> NoSummary, points |-> <<>>, out |-> <<>>, status |-> "none"]

\* A GetFeature call: the request, the Feature the method returned, and what
\* was sent.
NewGet ==
    [pc |-> "none", point |-> Point(0, 0), feature |-> NoFeature,
     out |-> <<>>, finish |-> 0, status |-> "none"]

\* A ListFeatures call: the request, the position of Iterate(feature_list_),
\* what was sent, the finishing actions issued, and whether the end of the
\* request stream was notified.
NewList ==
    [pc |-> "none", rectangle |-> NoRectangle, it |-> 0,
     out |-> <<>>, finish |-> 0, status |-> "none", closed |-> FALSE]

RECURSIVE SumLen(_, _)
SumLen(f, S) ==
    IF S = {} THEN 0
    ELSE LET x == CHOOSE y \in S : TRUE IN Len(f[x]) + SumLen(f, S \ {x})

\* The calls accepted so far, over all operations.
Accepted ==
    Cardinality({s \in Sessions : chat[s].pc # "none"})
    + Cardinality({c \in Calls : route[c].pc # "none"})
    + Cardinality({g \in Calls : feat[g].pc # "none"})
    + Cardinality({l \in Calls : list[l].pc # "none"})

\* The calls of f whose single request has been read.
Requests(f) == Cardinality({c \in Calls : f[c].pc \notin {"none", "open"}})

\* Inbound messages read so far, over all calls.
Inbound ==
    SumLen([s \in Sessions |-> chat[s].sent], Sessions)
    + SumLen([c \in Calls |-> route[c].points], Calls)
    + Requests(feat) + Requests(list)

\* No client is modelled: the inbound messages are drawn from the message
\* sets, up to MaxInbound of them.
NoClient == [kind |-> "none"]
NoCall == [name |-> "none"]
NoThreads == [main |-> "none"]

\* The server can read what a client has written on its call, when a client
\* is modelled, and MaxInbound messages otherwise.
InboundLimit ==
    IF call.name = "none" THEN MaxInbound ELSE Len(call.written)

Init ==
    /\ client = NoClient
    /\ call = NoCall
    /\ thr = NoThreads
    /\ variant \in Variants
    /\ feature_list_ \in FeatureLists
    /\ received_notes_ = <<>>
    /\ stale = <<>>
    /\ mu_ = 0
    /\ chat = [s \in Sessions |-> NewChat]
    /\ route = [c \in Calls |-> NewRoute]
    /\ feat = [g \in Calls |-> NewGet]
    /\ list = [l \in Calls |-> NewList]

\* Accept<RouteGuide, Stream<RouteNote>, Stream<RouteNote>>("RouteChat");
\* the calls are numbered in the order they are accepted.
ChatAccept(s) ==
    /\ chat[s].pc = "none"
    /\ Accepted < MaxAccepted
    /\ \A u \in Sessions : u < s => chat[u].pc # "none"
    /\ chat' = [chat EXCEPT ![s].pc = "idle"]
    /\ UNCHANGED <<client_vars, variant, feature_list_, received_notes_, stale,
                   mu_, route, feat, list>>

\* The next note taken up while echoes of the last one are still to be
\* written.
ChatReadWhileEmitting(s, note) ==
    /\ chat[s].pc \in {"idle", "emit"}
    /\ Inbound < InboundLimit
    /\ chat' = [chat EXCEPT ![s] =
                  [@ EXCEPT !.pc = IF HasLock(variant) THEN "lock" ELSE "scan",
                            !.note = note,
                            !.it = 1,
                            !.end = Len(received_notes_),
                            !.sent = Append(@, note),
                            !.mark = Len(chat[s].out),
                            !.marks = Append(@, Len(chat[s].out)),
                            !.before = received_notes_]]
    /\ UNCHANGED <<client_vars, variant, feature_list_, received_notes_, stale,
                   mu_, route, feat, list>>

\* The reader delivers the next inbound note and its handling begins.
ChatRead(s, note) ==
    /\ chat[s].pc = "idle"
    /\ Inbound < InboundLimit
    /\ chat' = [chat EXCEPT ![s] =
                  [@ EXCEPT !.pc = IF HasLock(variant) THEN "lock" ELSE "scan",
                            !.note = note,
                            !.it = 1,
                            !.end = Len(received_notes_),
                            !.sent = Append(@, note),
                            !.mark = Len(chat[s].out),
                            !.marks = Append(@, Len(chat[s].out)),
                            !.before = received_notes_]]
    /\ UNCHANGED <<client_vars, variant, feature_list_, received_notes_, stale,
                   mu_, route, feat, list>>

\* std::unique_lock<std::mutex> lock(mu_) / Synchronized(...)
Lock(s) ==
    /\ chat[s].pc = "lock"
    /\ mu_ = 0
    /\ mu_' = s
    /\ chat' = [chat EXCEPT ![s] =
                  [@ EXCEPT !.pc = "scan",
                            !.it = 1,
                            !.end = Len(received_notes_),
                            !.before = received_notes_]]
    /\ UNCHANGED <<client_vars, variant, feature_list_, received_notes_, stale,
                   route, feat, list>>

\* One iteration of  for (const RouteNote& n : received_notes_).
\* The loop runs to the end it read when it began; without the mutex the
\* vector's end may have moved back since, and the slot read is a stale one.
ScanStep(s) ==
    /\ chat[s].pc = "scan"
    /\ LET c == chat[s]
           n == (received_notes_ \o stale)[c.it]
           hit == SameLocation(n, c.note)
       IN  chat' = [chat EXCEPT ![s] =
                      IF c.it > c.end
                      THEN [@ EXCEPT !.pc = "push"]
                      ELSE [@ EXCEPT !.it = c.it + 1,
                                     !.notes = IF hit /\ Buffers(variant)
                                               THEN Append(@, n) ELSE @,
                                     !.out = IF hit /\ ~Buffers(variant)
                                             THEN Append(@, n) ELSE @]]
    /\ UNCHANGED <<client_vars, variant, feature_list_, received_notes_, stale,
                   mu_, route, feat, list>>

\* received_notes_.push_back(note), first half: read the end of the vector.
PushLoad(s) ==
    /\ chat[s].pc = "push"
    /\ chat' = [chat EXCEPT ![s] =
                  [@ EXCEPT !.pc = "store", !.size = Len(received_notes_)]]
    /\ UNCHANGED <<client_vars, variant, feature_list_, received_notes_, stale,
                   mu_, route, feat, list>>

\* received_notes_.push_back(note), second half: the note is constructed in
\* the slot at the end that was read and the end is set behind it.  The
\* slots further back keep what they hold.
PushStore(s) ==
    /\ chat[s].pc = "store"
    /\ LET slots == received_notes_ \o stale IN
       /\ received_notes_' = PushBackStore(slots, chat[s].size, chat[s].note)
       /\ stale' = SubSeq(slots, chat[s].size + 2, Len(slots))
    /\ chat' = [chat EXCEPT ![s] =
                  [@ EXCEPT !.pc = IF HasLock(variant) THEN "unlock" ELSE "idle",
                            !.it = 0, !.end = 0, !.size = 0]]
    /\ UNCHANGED <<client_vars, variant, feature_list_, mu_, route, feat, list>>

\* The buffer handed to Iterate as a copy: `notes` keeps what it holds.
UnlockKeepsNotes(s) ==
    /\ chat[s].pc = "unlock"
    /\ mu_ = s
    /\ mu_' = 0
    /\ chat' = [chat EXCEPT ![s] =
                  IF Buffers(variant) /\ chat[s].notes # <<>>
                  THEN [@ EXCEPT !.pc = "emit", !.iter = chat[s].notes]
                  ELSE [@ EXCEPT !.pc = "idle"]]
    /\ UNCHANGED <<client_vars, variant, feature_list_, received_notes_, stale,
                   route, feat, list>>

\* The critical section ends; the eventuals build hands the buffer to
\* Iterate(std::move(notes)).
Unlock(s) ==
    /\ chat[s].pc = "unlock"
    /\ mu_ = s
    /\ mu_' = 0
    /\ chat' = [chat EXCEPT ![s] =
                  IF Buffers(variant) /\ chat[s].notes # <<>>
                  THEN [@ EXCEPT !.pc = "emit", !.iter = chat[s].notes,
                                 !.notes = <<>>]
                  ELSE [@ EXCEPT !.pc = "idle"]]
    /\ UNCHANGED <<client_vars, variant, feature_list_, received_notes_, stale,
                   route, feat, list>>

\* Iterate yields the next buffered echo to the outbound stream.
Emit(s) ==
    /\ chat[s].pc = "emit"
    /\ chat' = [chat EXCEPT ![s] =
                  [@ EXCEPT !.out = Append(@, Head(chat[s].iter)),
                            !.iter = Tail(chat[s].iter),
                            !.pc = IF Tail(chat[s].iter) = <<>>
                                   THEN "idle" ELSE "emit"]]
    /\ UNCHANGED <<client_vars, variant, feature_list_, received_notes_, stale,
                   mu_, route, feat, list>>

\* The reader reports the end of the inbound stream.
ChatEnd(s) ==
    /\ chat[s].pc = "idle"
    /\ chat' = [chat EXCEPT ![s].pc = "eos"]
    /\ UNCHANGED <<client_vars, variant, feature_list_, received_notes_, stale,
                   mu_, route, feat, list>>

\* The transport ends the call.  The pipeline
\* reader.Read() | FlatMap(...) | StreamingEpilogue(call) learns of it where
\* it waits: for the next note, for the Notes Log or for a write of an
\* echo.  The body under Synchronized(Then(...)) is one
\* uninterrupted run of code and is never left half way.  The call's own
\* state (the note in hand, notes, the rest of Iterate) goes with the call.
\* This abort leaves with the last note of the log taken back.
ChatAbortRollsBack(s) ==
    /\ Epilogue(variant)
    /\ chat[s].pc \in {"idle", "lock", "emit"}
    /\ chat' = [chat EXCEPT ![s] =
                  [@ EXCEPT !.pc = IF chat[s].pc = "lock"
                                   THEN "aborted_waiting" ELSE "aborted",
                            !.it = 0, !.end = 0,
                            !.notes = <<>>, !.iter = <<>>]]
    /\ received_notes_' = SubSeq(received_notes_, 1, Len(received_notes_) - 1)
    /\ UNCHANGED <<client_vars, variant, feature_list_, stale, mu_, route, feat, list>>

ChatAbort(s) ==
    /\ Epilogue(variant)
    /\ chat[s].pc \in {"idle", "lock", "emit"}
    /\ chat' = [chat EXCEPT ![s] =
                  [@ EXCEPT !.pc = IF chat[s].pc = "lock"
                                   THEN "aborted_waiting" ELSE "aborted",
                            !.it = 0, !.end = 0,
                            !.notes = <<>>, !.iter = <<>>]]
    /\ UNCHANGED <<client_vars, variant, feature_list_, received_notes_, stale,
                   mu_, route, feat, list>>

\* The call finished although the inbound stream is still open.
ChatFinishEarly(s) ==
    /\ chat[s].pc \in {"idle", "eos"}
    /\ chat' = [chat EXCEPT ![s].pc = "done"]
    /\ UNCHANGED <<client_vars, variant, feature_list_, received_notes_, stale,
                   mu_, route, feat, list>>

\* call.Finish(Status::OK) / StreamingEpilogue
ChatFinish(s) ==
    /\ chat[s].pc = "eos"
    /\ chat' = [chat EXCEPT ![s].pc = "done"]
    /\ UNCHANGED <<client_vars, variant, feature_list_, received_notes_, stale,
                   mu_, route, feat, list>>

\* ----------------------------------------------------------- RecordRoute
\* A point counted as a feature as soon as the list has an entry there.
RecordPointCountsListed(r, point, feature_list) ==
    LET pc == r.point_count + 1 IN
    [r EXCEPT !.point_count = pc,
              !.feature_count =
                  IF \E i \in 1 .. Len(feature_list) :
                        feature_list[i].location = point
                  THEN @ + 1 ELSE @,
              !.distance =
                  IF pc # 1 THEN @ + GetDistance(r.previous, point) ELSE @,
              !.previous = point,
              !.points = Append(@, point)]

\* The first point measured against the default-constructed `previous`.
RecordPointFromOrigin(r, point, feature_list) ==
    [r EXCEPT !.point_count = @ + 1,
              !.feature_count =
                  IF GetFeatureName(point, feature_list) # "" THEN @ + 1 ELSE @,
              !.distance = @ + GetDistance(r.previous, point),
              !.previous = point,
              !.points = Append(@, point)]

\* `previous` set at the first point only.
RecordPointKeepsFirst(r, point, feature_list) ==
    LET pc == r.point_count + 1 IN
    [r EXCEPT !.point_count = pc,
              !.feature_count =
                  IF GetFeatureName(point, feature_list) # "" THEN @ + 1 ELSE @,
              !.distance =
                  IF pc # 1 THEN @ + GetDistance(r.previous, point) ELSE @,
              !.previous = IF pc = 1 THEN point ELSE @,
              !.points = Append(@, point)]

\* The body of Map / the handler's `if (point)` branch.
RecordPoint(r, point, feature_list) ==
    LET pc == r.point_count + 1 IN
    [r EXCEPT !.point_count = pc,
              !.feature_count =
                  IF GetFeatureName(point, feature_list) # "" THEN @ + 1 ELSE @,
              !.distance =
                  IF pc # 1 THEN @ + GetDistance(r.previous, point) ELSE @,
              !.previous = point,
              !.points = Append(@, point)]

\* The elapsed time taken as start minus end.
MakeSummaryBackwards(r, end_time) ==
    RouteSummary(r.point_count, r.feature_count,
                 r.distance \div 1000000,
                 (r.start_time - end_time) \div TicksPerSec)

\* The RouteSummary built when the inbound stream has ended.
MakeSummary(r, end_time) ==
    RouteSummary(r.point_count, r.feature_count,
                 r.distance \div 1000000,
                 (end_time - r.start_time) \div TicksPerSec)

\* A new call going on from the accumulators of the call before it.
RecordAcceptShared(c, start_time) ==
    /\ route[c].pc = "none"
    /\ Accepted < MaxAccepted
    /\ \A u \in Calls : u < c => route[u].pc # "none"
    /\ route' = [route EXCEPT ![c] =
                   [NewRoute EXCEPT
                       !.pc = "open",
                       !.start_time = start_time,
                       !.point_count = IF c > 1 THEN route[c - 1].point_count ELSE 0,
                       !.feature_count = IF c > 1 THEN route[c - 1].feature_count ELSE 0,
                       !.distance = IF c > 1 THEN route[c - 1].distance ELSE 0]]
    /\ UNCHANGED <<client_vars, variant, feature_list_, received_notes_, stale,
                   mu_, chat, feat, list>>

\* A call accepted only when the calls before it are finished.
RecordAcceptSerial(c, start_time) ==
    /\ route[c].pc = "none"
    /\ Accepted < MaxAccepted
    /\ \A u \in Calls : u < c => route[u].pc = "done"
    /\ route' = [route EXCEPT ![c] = [NewRoute EXCEPT !.pc = "open",
                                                       !.start_time = start_time]]
    /\ UNCHANGED <<client_vars, variant, feature_list_, received_notes_, stale,
                   mu_, chat, feat, list>>

\* Accept<RouteGuide, Stream<Point>, RouteSummary>("RecordRoute"): the
\* accumulators are initialised and system_clock::now() is read; the calls
\* are numbered in the order they are accepted.
RecordAccept(c, start_time) ==
    /\ route[c].pc = "none"
    /\ Accepted < MaxAccepted
    /\ \A u \in Calls : u < c => route[u].pc # "none"
    /\ route' = [route EXCEPT ![c] = [NewRoute EXCEPT !.pc = "open",
                                                       !.start_time = start_time]]
    /\ UNCHANGED <<client_vars, variant, feature_list_, received_notes_, stale,
                   mu_, chat, feat, list>>

\* A summary sent for every point read.
RecordReadSummarises(c, point) ==
    /\ route[c].pc = "open"
    /\ Inbound < InboundLimit
    /\ route' = [route EXCEPT ![c] =
                   [RecordPoint(@, point, feature_list_) EXCEPT
                       !.out = Append(@, MakeSummary(route[c], 0))]]
    /\ UNCHANGED <<client_vars, variant, feature_list_, received_notes_, stale,
                   mu_, chat, feat, list>>

RecordRead(c, point) ==
    /\ route[c].pc = "open"
    /\ Inbound < InboundLimit
    /\ route' = [route EXCEPT ![c] = RecordPoint(@, point, feature_list_)]
    /\ UNCHANGED <<client_vars, variant, feature_list_, received_notes_, stale,
                   mu_, chat, feat, list>>

\* End of the inbound stream: system_clock::now() is read again and the
\* summary is built; the closure's accumulators are gone.  The handlers and
\* callbacks call WriteAndFinish(summary, Status::OK) right there; the
\* eventuals method returns the summary to UnaryEpilogue.
RecordEnd(c, end_time) ==
    /\ route[c].pc = "open"
    /\ end_time >= route[c].start_time
    /\ LET summary == MakeSummary(route[c], end_time) IN
       route' = [route EXCEPT ![c] =
                   IF Epilogue(variant)
                   THEN [NewRoute EXCEPT !.pc = "eos",
                                         !.summary = summary,
                                         !.points = route[c].points]
                   ELSE [NewRoute EXCEPT !.pc = "done",
                                         !.summary = summary,
                                         !.points = route[c].points,
                                         !.out = <<summary>>,
                                         !.status = "OK"]]
    /\ UNCHANGED <<client_vars, variant, feature_list_, received_notes_, stale,
                   mu_, chat, feat, list>>

\* TypeErasedRecordRoute(&args) | UnaryEpilogue(call): the returned summary
\* is written and the call finished.
RecordFinish(c) ==
    /\ route[c].pc = "eos"
    /\ route' = [route EXCEPT ![c] =
                   [@ EXCEPT !.pc = "done",
                             !.out = Append(@, route[c].summary),
                             !.status = "OK"]]
    /\ UNCHANGED <<client_vars, variant, feature_list_, received_notes_, stale,
                   mu_, chat, feat, list>>

\* ------------------------------------------------------------ GetFeature
\* Accept<RouteGuide, Point, Feature>("GetFeature")
GetAccept(g) ==
    /\ feat[g].pc = "none"
    /\ Accepted < MaxAccepted
    /\ \A u \in Calls : u < g => feat[u].pc # "none"
    /\ feat' = [feat EXCEPT ![g].pc = "open"]
    /\ UNCHANGED <<client_vars, variant, feature_list_, received_notes_, stale,
                   mu_, chat, route, list>>

\* A point that was asked for before is answered with an empty name.
GetServeOnce(g, point) ==
    /\ feat[g].pc = "open"
    /\ Inbound < InboundLimit
    /\ LET asked == \E h \in Calls :
                        feat[h].pc \in {"reply", "done"} /\ feat[h].point = point
           feature == IF asked THEN Feature("", point)
                      ELSE GetFeature(point, feature_list_)
       IN  feat' = [feat EXCEPT ![g] =
                      [@ EXCEPT !.pc = "done", !.point = point,
                                !.feature = feature,
                                !.out = Append(@, feature),
                                !.finish = @ + 1,
                                !.status = "OK"]]
    /\ UNCHANGED <<client_vars, variant, feature_list_, received_notes_, stale,
                   mu_, chat, route, list>>

\* The entries at the requested point moved to the front of the store.
GetServeCaching(g, point) ==
    /\ feat[g].pc = "open"
    /\ Inbound < InboundLimit
    /\ LET feature == GetFeature(point, feature_list_) IN
       feat' = [feat EXCEPT ![g] =
                  [@ EXCEPT !.pc = "done", !.point = point,
                            !.feature = feature,
                            !.out = Append(@, feature),
                            !.finish = @ + 1,
                            !.status = "OK"]]
    /\ feature_list_' =
           SelectSeq(feature_list_, LAMBDA f : f.location = point)
           \o SelectSeq(feature_list_, LAMBDA f : f.location # point)
    /\ UNCHANGED <<client_vars, variant, received_notes_, stale, mu_, chat, route, list>>

\* The request is read and GetFeature runs on it.
GetServe(g, point) ==
    /\ feat[g].pc = "open"
    /\ Inbound < InboundLimit
    /\ LET feature == GetFeature(point, feature_list_) IN
       feat' = [feat EXCEPT ![g] =
                  IF Epilogue(variant)
                  THEN [@ EXCEPT !.pc = "reply", !.point = point,
                                 !.feature = feature]
                  ELSE [@ EXCEPT !.pc = "done", !.point = point,
                                 !.feature = feature,
                                 !.out = Append(@, feature),
                                 !.finish = @ + 1,
                                 !.status = "OK"]]
    /\ UNCHANGED <<client_vars, variant, feature_list_, received_notes_, stale,
                   mu_, chat, route, list>>

\* TypeErasedGetFeature(&args) | UnaryEpilogue(call)
GetFinish(g) ==
    /\ feat[g].pc = "reply"
    /\ feat' = [feat EXCEPT ![g] =
                  [@ EXCEPT !.pc = "done",
                            !.out = Append(@, feat[g].feature),
                            !.finish = @ + 1,
                            !.status = "OK"]]
    /\ UNCHANGED <<client_vars, variant, feature_list_, received_notes_, stale,
                   mu_, chat, route, list>>

\* ---------------------------------------------------------- ListFeatures
\* Accept<RouteGuide, Rectangle, Stream<Feature>>("ListFeatures")
ListAccept(l) ==
    /\ list[l].pc = "none"
    /\ Accepted < MaxAccepted
    /\ \A u \in Calls : u < l => list[u].pc # "none"
    /\ list' = [list EXCEPT ![l].pc = "open"]
    /\ UNCHANGED <<client_vars, variant, feature_list_, received_notes_, stale,
                   mu_, chat, route, feat>>

\* The request is read.  The handlers and callbacks write every matching
\* entry and call Finish(Status::OK) in the same invocation; the eventuals
\* method returns Iterate(feature_list_) | Filter(...).
ListServe(l, rectangle) ==
    /\ list[l].pc = "open"
    /\ Inbound < InboundLimit
    /\ list' = [list EXCEPT ![l] =
                  IF Epilogue(variant)
                  THEN [@ EXCEPT !.pc = "iterate", !.rectangle = rectangle,
                                 !.it = 1]
                  ELSE [@ EXCEPT !.pc = "done", !.rectangle = rectangle,
                                 !.out = WriteMatching(feature_list_, rectangle),
                                 !.finish = @ + 1,
                                 !.status = "OK"]]
    /\ UNCHANGED <<client_vars, variant, feature_list_, received_notes_, stale,
                   mu_, chat, route, feat>>

\* Iterate yields the next entry and Filter passes it on or drops it.
ListIterate(l) ==
    /\ list[l].pc = "iterate"
    /\ list[l].it <= Len(feature_list_)
    /\ LET f == feature_list_[list[l].it] IN
       list' = [list EXCEPT ![l] =
                  [@ EXCEPT !.it = @ + 1,
                            !.out = IF InRectangle(f, list[l].rectangle)
                                    THEN Append(@, f) ELSE @]]
    /\ UNCHANGED <<client_vars, variant, feature_list_, received_notes_, stale,
                   mu_, chat, route, feat>>

\* An empty stream finished with an error status.
ListFinishNotFound(l) ==
    /\ list[l].pc = "iterate"
    /\ list[l].it > Len(feature_list_)
    /\ list' = [list EXCEPT ![l] =
                  [@ EXCEPT !.pc = "done", !.it = 0,
                            !.finish = @ + 1,
                            !.status = IF list[l].out = <<>>
                                       THEN "NOT_FOUND" ELSE "OK"]]
    /\ UNCHANGED <<client_vars, variant, feature_list_, received_notes_, stale,
                   mu_, chat, route, feat>>

\* Iterate is exhausted: TypeErasedListFeatures(&args) | StreamingEpilogue(call)
ListFinish(l) ==
    /\ list[l].pc = "iterate"
    /\ list[l].it > Len(feature_list_)
    /\ list' = [list EXCEPT ![l] =
                  [@ EXCEPT !.pc = "done", !.it = 0,
                            !.finish = @ + 1,
                            !.status = "OK"]]
    /\ UNCHANGED <<client_vars, variant, feature_list_, received_notes_, stale,
                   mu_, chat, route, feat>>

\* The Server::Handler body is invoked once more, with a null request, when
\* the client has closed its side: route_guide_server.cc skips the loop and
\* calls Finish(Status::OK) again; unnamed/part_002 returns.
ListNull(l) ==
    /\ variant \in {"handler", "plain"}
    /\ list[l].pc = "done"
    /\ ~list[l].closed
    /\ list' = [list EXCEPT ![l] =
                  [@ EXCEPT !.closed = TRUE,
                            !.finish = IF variant = "handler" THEN @ + 1 ELSE @]]
    /\ UNCHANGED <<client_vars, variant, feature_list_, received_notes_, stale,
                   mu_, chat, route, feat>>

Next ==
    \/ \E s \in Sessions : ChatAccept(s)
    \/ \E s \in Sessions, note \in Notes : ChatRead(s, note)
    \/ \E s \in Sessions : Lock(s)
    \/ \E s \in Sessions : ScanStep(s)
    \/ \E s \in Sessions : PushLoad(s)
    \/ \E s \in Sessions : PushStore(s)
    \/ \E s \in Sessions : Unlock(s)
    \/ \E s \in Sessions : Emit(s)
    \/ \E s \in Sessions : ChatEnd(s)
    \/ \E s \in Sessions : ChatAbort(s)
    \/ \E s \in Sessions : ChatFinish(s)
    \/ \E c \in Calls, t \in 0 .. MaxTime : RecordAccept(c, t)
    \/ \E c \in Calls, point \in Points : RecordRead(c, point)
    \/ \E c \in Calls, t \in 0 .. MaxTime : RecordEnd(c, t)
    \/ \E c \in Calls : RecordFinish(c)
    \/ \E g \in Calls : GetAccept(g)
    \/ \E g \in Calls, point \in Points : GetServe(g, point)
    \/ \E g \in Calls : GetFinish(g)
    \/ \E l \in Calls : ListAccept(l)
    \/ \E l \in Calls, rectangle \in Rectangles : ListServe(l, rectangle)
    \/ \E l \in Calls : ListIterate(l)
    \/ \E l \in Calls : ListFinish(l)
    \/ \E l \in Calls : ListNull(l)

Spec == Init /\ [][Next]_vars

\* A continuation that is ready to run is run: the method's result reaches
\* its epilogue, and so the client.
Fairness ==
    /\ \A c \in Calls : WF_vars(RecordFinish(c))
    /\ \A g \in Calls : WF_vars(GetFinish(g))
    /\ \A l \in Calls : WF_vars(ListIterate(l)) /\ WF_vars(ListFinish(l))

FairSpec == Spec /\ Fairness

\* The builds that guard the Notes Log: eventuals, handler and callback.
InitLocked == Init /\ variant # "plain"

SpecLocked == InitLocked /\ [][Next]_vars

\* ------------------------------------------ one client call, one server
\* The clients that compose their calls: route_guide_eventuals_client.cc and
\* the Client::Handler client of route_guide_client.cc.
DemoKinds == {"eventuals_client", "handler_client"}

RpcNames == {"GetFeature", "ListFeatures", "RecordRoute", "RouteChat"}

\* The points main asks GetFeature for.
DemoPoints ==
    {Point(409146138, -746188906), Point(411633782, -746784970), Point(0, 0)}

\* The rectangle ListFeatures is called with.
DemoRectangle ==
    Rectangle(Point(400000000, -750000000), Point(420000000, -730000000))

\* The notes RouteChat sends: MakeRouteNote(message, latitude, longitude).
\* The sample notes with the fourth one at a place of its own.
DemoNotesApart ==
    << RouteNote(Point(0, 0), "First message"),
       RouteNote(Point(0, 1), "Second message"),
       RouteNote(Point(1, 0), "Third message"),
       RouteNote(Point(1, 1), "Fourth message") >>

DemoNotes ==
    << RouteNote(Point(0, 0), "First message"),
       RouteNote(Point(0, 1), "Second message"),
       RouteNote(Point(1, 0), "Third message"),
       RouteNote(Point(0, 0), "Fourth message") >>

\* The number of points RecordRoute sends.
kPoints == 10

\* What an index outside of the feature list may read: the client stops, or
\* it goes on with whatever lies there.
GarbagePoints == {Point(0, 0)}

\* A service whose type erased methods for the two unary-request
\* operations call each other's implementation.
ImplementationCrossed(method) ==
    CASE method = "TypeErasedGetFeature" -> "ListFeatures"
      [] method = "TypeErasedListFeatures" -> "GetFeature"
      [] method = "TypeErasedRecordRoute" -> "RecordRoute"
      [] method = "TypeErasedRouteChat" -> "RouteChat"

\* Accept<...>("Name") | ... TypeErasedName(&args): the method of
\* TypeErasedService that serves the calls accepted under an RPC name.
TypeErased(name) ==
    CASE name = "GetFeature" -> "TypeErasedGetFeature"
      [] name = "ListFeatures" -> "TypeErasedListFeatures"
      [] name = "RecordRoute" -> "TypeErasedRecordRoute"
      [] name = "RouteChat" -> "TypeErasedRouteChat"

\* Service<Implementation>: the method of the implementation each type
\* erased method calls.
Implementation(method) ==
    CASE method = "TypeErasedGetFeature" -> "GetFeature"
      [] method = "TypeErasedListFeatures" -> "ListFeatures"
      [] method = "TypeErasedRecordRoute" -> "RecordRoute"
      [] method = "TypeErasedRouteChat" -> "RouteChat"

\* The implementation method that handles the client's call.
Dispatch == Implementation(TypeErased(call.name))

Serves(method) == call.name # "none" /\ Dispatch = method

\* What the handler of the client's call has written to it, and whether it
\* has finished the call.
ServerOut ==
    CASE Dispatch = "GetFeature" -> feat[1].out
      [] Dispatch = "ListFeatures" -> list[1].out
      [] Dispatch = "RecordRoute" -> route[1].out
      [] Dispatch = "RouteChat" -> chat[1].out

ServerDone ==
    CASE Dispatch = "GetFeature" -> feat[1].pc = "done"
      [] Dispatch = "ListFeatures" -> list[1].pc = "done"
      [] Dispatch = "RecordRoute" -> route[1].pc = "done"
      [] Dispatch = "RouteChat" -> chat[1].pc = "done"

\* The messages of the client's call the server has read.
ServerRead ==
    CASE Dispatch = "GetFeature" -> Requests(feat)
      [] Dispatch = "ListFeatures" -> Requests(list)
      [] Dispatch = "RecordRoute" -> Len(route[1].points)
      [] Dispatch = "RouteChat" -> Len(chat[1].sent)

\* The next message of the client's call the server has not read.
NextWritten == call.written[ServerRead + 1]

\* The client has closed its side and the server has read all of it.
InboundEnded == call.writes_done > 0 /\ ServerRead = Len(call.written)

DemoInit ==
    /\ variant = "eventuals"
    /\ feature_list_ \in FeatureLists
    /\ received_notes_ = <<>>
    /\ stale = <<>>
    /\ mu_ = 0
    /\ chat = [s \in Sessions |-> NewChat]
    /\ route = [c \in Calls |-> NewRoute]
    /\ feat = [g \in Calls |-> NewGet]
    /\ list = [l \in Calls |-> NewList]
    /\ client \in [kind : DemoKinds, feature_list : FeatureLists,
                   demo : RpcNames, pc : {"main"}]
    /\ call = NoCall
    /\ thr = NoThreads

\* client_.Call<RouteGuide, Request, Response>("Name")
ClientCall ==
    /\ client.pc = "main"
    /\ client' = [client EXCEPT !.pc = "ready"]
    /\ call' = [name |-> client.demo, written |-> <<>>, writes_done |-> 0,
                received |-> <<>>, status |-> "none"]
    /\ UNCHANGED <<variant, feature_list_, received_notes_, stale, mu_,
                   chat, route, feat, list, thr>>

\* call.Writer().WriteLast(point) / call.WriteLast(data.point)
ClientWriteLastPoint(point) ==
    /\ client.pc = "ready"
    /\ call.name = "GetFeature"
    /\ call' = [call EXCEPT !.written = <<point>>, !.writes_done = 1]
    /\ client' = [client EXCEPT !.pc = "read"]
    /\ UNCHANGED <<variant, feature_list_, received_notes_, stale, mu_,
                   chat, route, feat, list, thr>>

\* call.Writer().WriteLast(rect) / call.WriteLast(data.rectangle)
ClientWriteLastRectangle ==
    /\ client.pc = "ready"
    /\ call.name = "ListFeatures"
    /\ call' = [call EXCEPT !.written = <<DemoRectangle>>, !.writes_done = 1]
    /\ client' = [client EXCEPT !.pc = "read"]
    /\ UNCHANGED <<variant, feature_list_, received_notes_, stale, mu_,
                   chat, route, feat, list, thr>>

\* One round of the loop over kPoints:
\*   const Feature& f = feature_list_[feature_distribution(generator)];
\*   call.Write(f.location());
\* feature_distribution is uniform_int_distribution<int>(0, size() - 1).  On
\* an empty list its bounds are (0, -1) and the index reads outside of the
\* vector: undefined behaviour.
ClientWritePoint ==
    /\ client.pc = "ready"
    /\ call.name = "RecordRoute"
    /\ Len(call.written) < kPoints
    /\ \/ /\ client.feature_list # <<>>
          /\ \E i \in 1 .. Len(client.feature_list) :
                call' = [call EXCEPT
                            !.written = Append(@, client.feature_list[i].location)]
          /\ UNCHANGED client
       \/ /\ client.feature_list = <<>>
          /\ \E point \in GarbagePoints :
                call' = [call EXCEPT !.written = Append(@, point)]
          /\ UNCHANGED client
       \/ /\ client.feature_list = <<>>
          /\ client' = [client EXCEPT !.pc = "crashed"]
          /\ UNCHANGED call
    /\ UNCHANGED <<variant, feature_list_, received_notes_, stale, mu_,
                   chat, route, feat, list, thr>>

\* call.WritesDone() behind the loop of RecordRoute
ClientWritesDone ==
    /\ client.pc = "ready"
    /\ call.name = "RecordRoute"
    /\ Len(call.written) = kPoints
    /\ call' = [call EXCEPT !.writes_done = @ + 1]
    /\ client' = [client EXCEPT !.pc = "read"]
    /\ UNCHANGED <<variant, feature_list_, received_notes_, stale, mu_,
                   chat, route, feat, list, thr>>

\* The writing half of RouteChat: call.Write(note) for the next note.
ClientWriteNote ==
    /\ client.pc = "ready"
    /\ call.name = "RouteChat"
    /\ call.writes_done = 0
    /\ Len(call.written) < Len(DemoNotes)
    /\ call' = [call EXCEPT !.written = Append(@, DemoNotes[Len(@) + 1])]
    /\ UNCHANGED <<variant, feature_list_, received_notes_, stale, mu_,
                   chat, route, feat, list, client, thr>>

\* call.WritesDone() behind the four notes
ClientChatWritesDone ==
    /\ client.pc = "ready"
    /\ call.name = "RouteChat"
    /\ call.writes_done = 0
    /\ Len(call.written) = Len(DemoNotes)
    /\ call' = [call EXCEPT !.writes_done = @ + 1]
    /\ UNCHANGED <<variant, feature_list_, received_notes_, stale, mu_,
                   chat, route, feat, list, client, thr>>

\* call.Reader().Read() / .body(): the next response arrives.  The calls
\* with one response (Head()) go on to Finish; the streams read on.
ClientRead ==
    /\ \/ client.pc = "read"
       \/ client.pc = "ready" /\ call.name = "RouteChat"
    /\ Len(call.received) < Len(ServerOut)
    /\ call' = [call EXCEPT
                   !.received = Append(@, ServerOut[Len(@) + 1])]
    /\ client' = [client EXCEPT
                     !.pc = IF call.name \in {"GetFeature", "RecordRoute"}
                            THEN "finish" ELSE @]
    /\ UNCHANGED <<variant, feature_list_, received_notes_, stale, mu_,
                   chat, route, feat, list, thr>>

\* The stream of responses has ended (and, in RouteChat, the writing half
\* is through): DoAll(...) / Foreach(...) is done.
ClientReadEnd ==
    /\ call.name \in {"ListFeatures", "RouteChat"}
    /\ \/ client.pc = "read"
       \/ client.pc = "ready" /\ call.writes_done > 0
    /\ ServerDone
    /\ Len(call.received) = Len(ServerOut)
    /\ client' = [client EXCEPT !.pc = "finish"]
    /\ UNCHANGED <<variant, feature_list_, received_notes_, stale, mu_,
                   chat, route, feat, list, call, thr>>

\* call.Finish() / .finished(): the status of the call is there.
ClientFinish ==
    /\ client.pc = "finish"
    /\ ServerDone
    /\ call' = [call EXCEPT !.status = "OK"]
    /\ client' = [client EXCEPT !.pc = "done"]
    /\ UNCHANGED <<variant, feature_list_, received_notes_, stale, mu_,
                   chat, route, feat, list, thr>>

\* The eventuals server beside the client: every step of a handler is the
\* step of the server model, taken for the call the client has started, on
\* the messages the client has written.
DemoNext ==
    \/ ClientCall
    \/ \E point \in DemoPoints : ClientWriteLastPoint(point)
    \/ ClientWriteLastRectangle
    \/ ClientWritePoint
    \/ ClientWritesDone
    \/ ClientWriteNote
    \/ ClientChatWritesDone
    \/ ClientRead
    \/ ClientReadEnd
    \/ ClientFinish
    \/ Serves("GetFeature") /\ GetAccept(1)
    \/ Serves("GetFeature") /\ GetServe(1, NextWritten)
    \/ Serves("GetFeature") /\ GetFinish(1)
    \/ Serves("ListFeatures") /\ ListAccept(1)
    \/ Serves("ListFeatures") /\ ListServe(1, NextWritten)
    \/ Serves("ListFeatures") /\ ListIterate(1)
    \/ Serves("ListFeatures") /\ ListFinish(1)
    \/ Serves("RecordRoute") /\ \E t \in 0 .. MaxTime : RecordAccept(1, t)
    \/ Serves("RecordRoute") /\ RecordRead(1, NextWritten)
    \/ Serves("RecordRoute") /\ InboundEnded
          /\ \E t \in 0 .. MaxTime : RecordEnd(1, t)
    \/ Serves("RecordRoute") /\ RecordFinish(1)
    \/ Serves("RouteChat") /\ ChatAccept(1)
    \/ Serves("RouteChat") /\ ChatRead(1, NextWritten)
    \/ Serves("RouteChat") /\ Lock(1)
    \/ Serves("RouteChat") /\ ScanStep(1)
    \/ Serves("RouteChat") /\ PushLoad(1)
    \/ Serves("RouteChat") /\ PushStore(1)
    \/ Serves("RouteChat") /\ Unlock(1)
    \/ Serves("RouteChat") /\ Emit(1)
    \/ Serves("RouteChat") /\ InboundEnded /\ ChatEnd(1)
    \/ Serves("RouteChat") /\ ChatFinish(1)

DemoSpec == DemoInit /\ [][DemoNext]_vars

\* ------------------------------------------------ main of the clients
\* The four clients of the repository: the eventuals client, the
\* Client::Handler client (route_guide_client.cc), the client with plain
\* callbacks (unnamed/part_001, first file) and the earlier Client::Handler
\* client whose methods return lambdas (unnamed/part_001, second file).
MainKinds ==
    {"eventuals_client", "handler_client", "callback_client", "lambda_client"}

\* grpc::Status of a call that has ended.
Statuses == {"OK", "UNAVAILABLE"}

Demo(name, args) == [name |-> name, args |-> args, status |-> "none"]

\* The calls main makes, in the order of the text of main.  The two
\* Client::Handler clients look up three points, the other two look up two
\* (GetOneFeature twice inside GetFeature).
Demos(kind) ==
    IF kind \in {"handler_client", "lambda_client"}
    THEN << Demo("GetFeature", <<Point(409146138, -746188906)>>),
            Demo("GetFeature", <<Point(411633782, -746784970)>>),
            Demo("GetFeature", <<Point(0, 0)>>),
            Demo("ListFeatures", <<>>),
            Demo("RecordRoute", <<>>),
            Demo("RouteChat", <<>>) >>
    ELSE << Demo("GetFeature", <<Point(409146138, -746188906)>>),
            Demo("GetFeature", <<Point(0, 0)>>),
            Demo("ListFeatures", <<>>),
            Demo("RecordRoute", <<>>),
            Demo("RouteChat", <<>>) >>

\* main looks at the status of the call: auto status = *(guide.X()).
Inspects(kind) == kind \in {"handler_client", "lambda_client"}

\* main has a return EXIT_FAILURE in the branch of a failed call.  The
\* earlier client only prints for call5 (RecordRoute) and call6 (RouteChat).
Returns(kind, name) ==
    \/ kind = "handler_client"
    \/ kind = "lambda_client" /\ name \in {"GetFeature", "ListFeatures"}

\* What the end of the call hands to the code that waits for it.
\*   .finished([](auto&& data, auto& continuation, auto&& resp) {
\*     continuation.Start(grpc::Status::OK); })
\* starts the continuation with OK whatever the call ended with; the other
\* two clients pass the status on (call.Finish() | Then(...), done.Notify).
Delivered(kind, status) == IF Inspects(kind) THEN "OK" ELSE status

MainInit ==
    /\ variant = "eventuals"
    /\ feature_list_ = <<>>
    /\ received_notes_ = <<>>
    /\ stale = <<>>
    /\ mu_ = 0
    /\ chat = [s \in Sessions |-> NewChat]
    /\ route = [c \in Calls |-> NewRoute]
    /\ feat = [g \in Calls |-> NewGet]
    /\ list = [l \in Calls |-> NewList]
    /\ client \in [kind : MainKinds, pc : {"run"}, calls : {<<>>},
                   status : {"none"}, reports : {<<>>}, exit : {"none"}]
    /\ call = NoCall
    /\ thr = NoThreads

\* The call main has started last.
LastCall == client.calls[Len(client.calls)]

\* *(guide.X()) / guide.X(): main starts the next call of its text and
\* blocks until the call is through.
\* main that starts its next call and does not wait for it.
MainStartDetached ==
    /\ client.pc = "run"
    /\ Len(client.calls) < Len(Demos(client.kind))
    /\ client' = [client EXCEPT
                     !.calls = Append(@, Demos(client.kind)[Len(@) + 1])]
    /\ UNCHANGED <<variant, feature_list_, received_notes_, stale, mu_,
                   chat, route, feat, list, call, thr>>

MainStart ==
    /\ client.pc = "run"
    /\ Len(client.calls) < Len(Demos(client.kind))
    /\ client' = [client EXCEPT
                     !.calls = Append(@, Demos(client.kind)[Len(@) + 1]),
                     !.pc = "blocked"]
    /\ UNCHANGED <<variant, feature_list_, received_notes_, stale, mu_,
                   chat, route, feat, list, call, thr>>

\* The call ends, with the status the server or the transport gave it.
CallEnds(status) ==
    /\ client.pc = "blocked"
    /\ LastCall.status = "none"
    /\ client' = [client EXCEPT !.calls[Len(client.calls)].status = status]
    /\ UNCHANGED <<variant, feature_list_, received_notes_, stale, mu_,
                   chat, route, feat, list, call, thr>>

\* .finished(...) / Finally(call.Finish()) / done.Wait(): the end of the
\* call reaches the code that waits for it, and main goes on.
CallFinished ==
    /\ client.pc = "blocked"
    /\ LastCall.status # "none"
    /\ client' = [client EXCEPT
                     !.status = Delivered(client.kind, LastCall.status),
                     !.pc = "inspect"]
    /\ UNCHANGED <<variant, feature_list_, received_notes_, stale, mu_,
                   chat, route, feat, list, call, thr>>

\* if (!status.ok()) { std::cerr << "... failed!"; return EXIT_FAILURE; }
\* else { std::cout << "... successful completed!"; }
\* in the clients whose main looks at the status; the other two go on.
MainInspect ==
    /\ client.pc = "inspect"
    /\ client' =
          IF ~Inspects(client.kind)
          THEN [client EXCEPT !.pc = "run"]
          ELSE IF client.status = "OK"
          THEN [client EXCEPT !.pc = "run",
                              !.reports = Append(@, "succeeded")]
          ELSE IF Returns(client.kind, LastCall.name)
          THEN [client EXCEPT !.pc = "returned",
                              !.reports = Append(@, "failed"),
                              !.exit = "EXIT_FAILURE"]
          ELSE [client EXCEPT !.pc = "run",
                              !.reports = Append(@, "failed")]
    /\ UNCHANGED <<variant, feature_list_, received_notes_, stale, mu_,
                   chat, route, feat, list, call, thr>>

\* return std::cout.good() ? EXIT_SUCCESS : EXIT_FAILURE; / return 0;
MainReturn(good) ==
    /\ client.pc = "run"
    /\ Len(client.calls) = Len(Demos(client.kind))
    /\ client' = [client EXCEPT
                     !.pc = "returned",
                     !.exit = IF Inspects(client.kind) /\ ~good
                              THEN "EXIT_FAILURE" ELSE "EXIT_SUCCESS"]
    /\ UNCHANGED <<variant, feature_list_, received_notes_, stale, mu_,
                   chat, route, feat, list, call, thr>>

MainNext ==
    \/ MainStart
    \/ \E status \in Statuses : CallEnds(status)
    \/ CallFinished
    \/ MainInspect
    \/ \E good \in BOOLEAN : MainReturn(good)

MainSpec == MainInit /\ [][MainNext]_vars

\* --------------------------------- the client with plain callbacks
\* RecordRoute and RouteChat of the first client of unnamed/part_001.  The
\* function runs on the main thread; the library invokes the start callback,
\* the read callback and the finished callback; RouteChat starts a writer
\* thread of its own.  `thr` holds the position of each of them, the
\* std::thread object `writer` and the Notification `done`.
CallbackLists == FeatureLists \ {<<>>}

CallbackDemos == {"RecordRoute", "RouteChat"}

\* The result of call->Write(...).
WriteResult(broken) == IF broken THEN "Failed" ELSE "Ok"

\* The status a call is finished with.
FinalStatus(c) ==
    IF c.ok = "true" /\ ~c.broken /\ c.cancelled = 0 THEN "OK"
    ELSE "UNAVAILABLE"

\* The process has come to an end outside of main's text.
Dead == thr.main \in {"terminated", "crashed"}

CallbackInit ==
    /\ variant = "eventuals"
    /\ feature_list_ = <<>>
    /\ received_notes_ = <<>>
    /\ stale = <<>>
    /\ mu_ = 0
    /\ chat = [s \in Sessions |-> NewChat]
    /\ route = [c \in Calls |-> NewRoute]
    /\ feat = [g \in Calls |-> NewGet]
    /\ list = [l \in Calls |-> NewList]
    /\ client \in [kind : {"callback_client"}, feature_list : CallbackLists,
                   demo : CallbackDemos, pc : {"main"}]
    /\ call = NoCall
    /\ thr = [main |-> "run", start |-> "none", writer |-> "none",
              joinable |-> FALSE, done |-> <<>>, status |-> "none",
              stats |-> "none"]

\* client_->Call<RouteGuide, ...>("Name", [&](auto&& call, bool ok) {...});
\* main goes on to writer.join() (RouteChat) or to done.Wait().
CbCall ==
    /\ thr.main = "run"
    /\ call = NoCall
    /\ call' = [name |-> client.demo, ok |-> "none", broken |-> FALSE,
                written |-> <<>>, results |-> <<>>, writes_done |-> 0,
                cancelled |-> 0, finish |-> 0, on_read |-> FALSE,
                on_finished |-> FALSE, read |-> 0, status |-> "none"]
    /\ thr' = [thr EXCEPT
                  !.main = IF client.demo = "RouteChat" THEN "join" ELSE "wait"]
    /\ UNCHANGED <<variant, feature_list_, received_notes_, stale, mu_,
                   chat, route, feat, list, client>>

\* The stream breaks.
CbBreak ==
    /\ ~Dead
    /\ call.name # "none"
    /\ call.ok = "true"
    /\ ~call.broken
    /\ call.status = "none"
    /\ call' = [call EXCEPT !.broken = TRUE]
    /\ UNCHANGED <<variant, feature_list_, received_notes_, stale, mu_,
                   chat, route, feat, list, client, thr>>

\* The start callback is invoked:
\*   call->OnFinished([&](auto*, const Status& status) { done.Notify(status); });
CbStart(ok) ==
    /\ ~Dead
    /\ call.name # "none"
    /\ thr.start = "none"
    /\ call' = [call EXCEPT !.ok = IF ok THEN "true" ELSE "false",
                            !.on_finished = TRUE]
    /\ thr' = [thr EXCEPT !.start = "entered"]
    /\ UNCHANGED <<variant, feature_list_, received_notes_, stale, mu_,
                   chat, route, feat, list, client>>

\* if (!ok) { call->context()->TryCancel(); call->Finish(); }
CbFailedStart ==
    /\ ~Dead
    /\ thr.start = "entered"
    /\ call.ok = "false"
    /\ call' = [call EXCEPT !.cancelled = @ + 1, !.finish = @ + 1]
    /\ thr' = [thr EXCEPT !.start = "returned"]
    /\ UNCHANGED <<variant, feature_list_, received_notes_, stale, mu_,
                   chat, route, feat, list, client>>

\* One round of the loop of RecordRoute:
\*   const Feature& f = feature_list_[feature_distribution(generator)];
\*   if (call->Write(f.location()) != ClientCallStatus::Ok) break;
CbWritePoint ==
    /\ ~Dead
    /\ thr.start = "entered"
    /\ call.ok = "true"
    /\ call.name = "RecordRoute"
    /\ Len(call.written) < kPoints
    /\ \E i \in 1 .. Len(client.feature_list) :
          call' = [call EXCEPT
                      !.written = Append(@, client.feature_list[i].location),
                      !.results = Append(@, WriteResult(call.broken))]
    /\ thr' = [thr EXCEPT
                  !.start = IF WriteResult(call.broken) = "Ok"
                            THEN @ ELSE "broke"]
    /\ UNCHANGED <<variant, feature_list_, received_notes_, stale, mu_,
                   chat, route, feat, list, client>>

\* Behind the loop:
\*   call->WritesDone();
\*   call->OnRead([&](auto* call, auto&& response) {...});
CbWritesDone ==
    /\ ~Dead
    /\ call.name = "RecordRoute"
    /\ \/ thr.start = "entered" /\ call.ok = "true"
                                /\ Len(call.written) = kPoints
       \/ thr.start = "broke"
    /\ call' = [call EXCEPT !.writes_done = @ + 1, !.on_read = TRUE]
    /\ thr' = [thr EXCEPT !.start = "returned"]
    /\ UNCHANGED <<variant, feature_list_, received_notes_, stale, mu_,
                   chat, route, feat, list, client>>

\* The read callback of RecordRoute is invoked with the summary:
\*   stats.Swap(response.get()); call->Finish();
CbReadSummary ==
    /\ ~Dead
    /\ call.name = "RecordRoute"
    /\ call.on_read
    /\ ~call.broken
    /\ call.read = 0
    /\ call' = [call EXCEPT !.read = @ + 1, !.finish = @ + 1]
    /\ thr' = [thr EXCEPT !.stats = "summary"]
    /\ UNCHANGED <<variant, feature_list_, received_notes_, stale, mu_,
                   chat, route, feat, list, client>>

\* The read callback of RecordRoute is invoked with no response, as the
\* read callbacks of ListFeatures and RouteChat expect at the end of a
\* stream.  response.get() is null and stats.Swap(nullptr) reads through
\* it: undefined behaviour.  The process stops there, or goes on to
\* call->Finish().
CbReadNull ==
    /\ ~Dead
    /\ call.name = "RecordRoute"
    /\ call.on_read
    /\ call.broken
    /\ call.read = 0
    /\ \/ /\ thr' = [thr EXCEPT !.main = "crashed"]
          /\ call' = [call EXCEPT !.read = @ + 1]
       \/ /\ thr' = thr
          /\ call' = [call EXCEPT !.read = @ + 1, !.finish = @ + 1]
    /\ UNCHANGED <<variant, feature_list_, received_notes_, stale, mu_,
                   chat, route, feat, list, client>>

\* The else branch of the start callback of RouteChat:
\*   call->OnRead(...);
\*   writer = std::thread([&, call = std::move(call)]() {...});
CbStartWriter ==
    /\ ~Dead
    /\ thr.start = "entered"
    /\ call.ok = "true"
    /\ call.name = "RouteChat"
    /\ call' = [call EXCEPT !.on_read = TRUE]
    /\ thr' = [thr EXCEPT !.start = "returned", !.writer = "run",
                          !.joinable = TRUE]
    /\ UNCHANGED <<variant, feature_list_, received_notes_, stale, mu_,
                   chat, route, feat, list, client>>

\* The writer thread: call->Write(note); the result is not looked at.
CbWriteNote ==
    /\ ~Dead
    /\ thr.writer = "run"
    /\ Len(call.written) < Len(DemoNotes)
    /\ call' = [call EXCEPT
                   !.written = Append(@, DemoNotes[Len(@) + 1]),
                   !.results = Append(@, WriteResult(call.broken))]
    /\ UNCHANGED <<variant, feature_list_, received_notes_, stale, mu_,
                   chat, route, feat, list, client, thr>>

\* The writer thread: call->WritesDoneAndFinish(); and the thread ends.
CbWritesDoneAndFinish ==
    /\ ~Dead
    /\ thr.writer = "run"
    /\ Len(call.written) = Len(DemoNotes)
    /\ call' = [call EXCEPT !.writes_done = @ + 1, !.finish = @ + 1]
    /\ thr' = [thr EXCEPT !.writer = "exited"]
    /\ UNCHANGED <<variant, feature_list_, received_notes_, stale, mu_,
                   chat, route, feat, list, client>>

\* main: writer.join(); returns when the thread has ended.
CbJoin ==
    /\ thr.main = "join"
    /\ thr.joinable
    /\ thr.writer = "exited"
    /\ thr' = [thr EXCEPT !.main = "wait", !.joinable = FALSE]
    /\ UNCHANGED <<variant, feature_list_, received_notes_, stale, mu_,
                   chat, route, feat, list, client, call>>

\* main: writer.join() on the default constructed std::thread, which is not
\* joinable: join throws std::system_error, nothing catches it, the process
\* is terminated.
CbJoinThrows ==
    /\ thr.main = "join"
    /\ ~thr.joinable
    /\ thr' = [thr EXCEPT !.main = "terminated"]
    /\ UNCHANGED <<variant, feature_list_, received_notes_, stale, mu_,
                   chat, route, feat, list, client, call>>

\* The finished callback is invoked with the status of the call:
\*   done.Notify(status);
CbFinished ==
    /\ ~Dead
    /\ call.name # "none"
    /\ call.on_finished
    /\ call.finish > 0
    /\ call.status = "none"
    /\ call' = [call EXCEPT !.status = FinalStatus(call)]
    /\ thr' = [thr EXCEPT !.done = Append(@, FinalStatus(call))]
    /\ UNCHANGED <<variant, feature_list_, received_notes_, stale, mu_,
                   chat, route, feat, list, client>>

\* main: Status status = done.Wait(); and the function returns.
CbWait ==
    /\ thr.main = "wait"
    /\ thr.done # <<>>
    /\ thr' = [thr EXCEPT !.main = "returned", !.status = thr.done[1]]
    /\ UNCHANGED <<variant, feature_list_, received_notes_, stale, mu_,
                   chat, route, feat, list, client, call>>

CallbackNext ==
    \/ CbCall
    \/ CbBreak
    \/ \E ok \in BOOLEAN : CbStart(ok)
    \/ CbFailedStart
    \/ CbWritePoint
    \/ CbWritesDone
    \/ CbReadSummary
    \/ CbReadNull
    \/ CbStartWriter
    \/ CbWriteNote
    \/ CbWritesDoneAndFinish
    \/ CbJoin
    \/ CbJoinThrows
    \/ CbFinished
    \/ CbWait

CallbackSpec == CallbackInit /\ [][CallbackNext]_vars

\* ------------------------------------------------------------ properties
IsPrefix(a, b) == Len(a) <= Len(b) /\ SubSeq(b, 1, Len(a)) = a

\* The stored notes at the location of `note`, in log order.
MatchesIn(log, note) == SelectSeq(log, LAMBDA n : n.location = note.location)

\* The echoes written so far for the note session s read last.
EchoesOf(s) == SubSeq(chat[s].out, chat[s].mark + 1, Len(chat[s].out))

Scanning == {"scan", "push", "store"}
Handled == {"unlock", "emit", "idle", "eos", "done", "aborted"}

\* The inbound notes of session s whose append has completed.
Appended(s) ==
    IF chat[s].pc \in Handled THEN chat[s].sent
    ELSE SubSeq(chat[s].sent, 1, Len(chat[s].sent) - 1)

\* log is an interleaving of the sequences f[s], each in its own order.
RECURSIVE IsShuffle(_, _)
IsShuffle(log, f) ==
    IF log = <<>> THEN \A s \in DOMAIN f : f[s] = <<>>
    ELSE \E s \in DOMAIN f :
            /\ f[s] # <<>>
            /\ Head(f[s]) = Head(log)
            /\ IsShuffle(Tail(log), [f EXCEPT ![s] = Tail(f[s])])

\* C1: the echoes emitted for an inbound note N are exactly the notes that
\* were in the Notes Log when N's scan began and lie at N's latitude and
\* longitude, in log order; the log is untouched while N is scanned and N is
\* appended right behind what was scanned, so N is not among its own echoes.
C1_EchoesAreEarlierMatches ==
    \A s \in Sessions :
        LET c == chat[s] IN
        c.sent # <<>> =>
            /\ IsPrefix(EchoesOf(s) \o c.notes \o c.iter,
                        MatchesIn(c.before, c.note))
            /\ c.pc \in {"idle", "eos", "done"} =>
                   EchoesOf(s) = MatchesIn(c.before, c.note)
            /\ c.pc \in Scanning => received_notes_ = c.before
            /\ c.pc \in Handled =>
                   IsPrefix(Append(c.before, c.note), received_notes_)

\* A note got two different echoes, in the order they were stored.
C1_Witness ==
    \E s \in Sessions :
        /\ chat[s].pc = "idle"
        /\ Len(EchoesOf(s)) = 2
        /\ EchoesOf(s)[1] # EchoesOf(s)[2]
        /\ EchoesOf(s) = SubSeq(received_notes_, 1, 2)

\* C2: in every build the scan of the Notes Log and the append of the
\* inbound note are one atomic unit: no two sessions are between the start
\* of a scan and the completion of the append at once, and a completed
\* append leaves the log as the scanned log plus the note.
C2_ScanAppendAtomic ==
    /\ \A s, t \in Sessions :
           s # t => ~(chat[s].pc \in Scanning /\ chat[t].pc \in Scanning)
    /\ \A s \in Sessions :
           chat[s].pc \in Scanning => received_notes_ = chat[s].before

\* C3: from an empty log, two sessions that each had one note handled, both
\* at one location: exactly one of the notes is echoed to the other session,
\* and it is the earlier one when it was stored before the later was read.
C3_ExactlyOneEcho ==
    \A s, t \in Sessions :
        LET a == chat[s]
            b == chat[t]
        IN  ( /\ s # t
              /\ Len(a.sent) = 1 /\ Len(b.sent) = 1
              /\ a.pc \in {"idle", "eos", "done"}
              /\ b.pc \in {"idle", "eos", "done"}
              /\ a.note.location = b.note.location
              /\ \A u \in Sessions \ {s, t} : chat[u].sent = <<>> )
            => /\ \/ a.out = <<>> /\ b.out = <<a.note>>
                  \/ b.out = <<>> /\ a.out = <<b.note>>
               /\ b.before = <<a.note>> => a.out = <<>> /\ b.out = <<a.note>>

\* C4: the log holds every handled inbound note exactly once, the notes of
\* each session in the order the session sent them.
C4_NoNoteLostOrDuplicated ==
    IsShuffle(received_notes_, [s \in Sessions |-> Appended(s)])

\* Three notes of two sessions are stored, two of them of one session.
C4_Witness ==
    /\ Len(received_notes_) = 3
    /\ \E s, t \in Sessions :
           /\ Len(chat[s].sent) = 2 /\ Len(chat[t].sent) = 1
           /\ received_notes_[2] = chat[t].sent[1]
           /\ chat[s].sent[1] # chat[s].sent[2]

\* C5: the Notes Log starts empty and every step leaves it as it was or
\* adds one note at its end; the notes of a finished session stay stored.
C5_LogAppendOnly ==
    /\ received_notes_ = <<>>
    /\ [][\/ received_notes_' = received_notes_
          \/ \E n \in Notes : received_notes_' = Append(received_notes_, n)]_vars
    /\ [](\A s \in Sessions : chat[s].pc = "done" =>
             \A i \in 1 .. Len(chat[s].sent) :
                \E j \in 1 .. Len(received_notes_) :
                   received_notes_[j] = chat[s].sent[i])

\* A session is echoed the note of a session that has finished.
C5_Witness ==
    \E s, t \in Sessions :
        /\ s # t
        /\ chat[s].pc = "done"
        /\ Len(chat[s].sent) = 1
        /\ chat[t].pc = "idle"
        /\ chat[t].before = chat[s].sent
        /\ chat[t].out = chat[s].sent


\* C6 as claimed: the Notes Log lock is held only between the start of a
\* note's scan and the end of its append, never while waiting for the next
\* inbound note, and no echo is written to the outbound stream while it is
\* held.
C6_NoWriteWhileLocked ==
    /\ [](\A s \in Sessions :
             mu_ = s => chat[s].pc \in Scanning \cup {"unlock"})
    /\ [][\A s \in Sessions : mu_ = s => chat'[s].out = chat[s].out]_vars

\* C6 as amended: the lock is held only between the start of a note's scan
\* and the end of its append, for one note at a time, never while waiting
\* for the next inbound note; the eventuals build writes no echo while it
\* holds the lock (the mutex builds call Write inside the critical section).
C6_LockOnlyForScanAndAppend ==
    /\ [](\A s \in Sessions :
             mu_ = s => chat[s].pc \in Scanning \cup {"unlock"})
    /\ [][\A s \in Sessions :
             (mu_ = s /\ mu_' = s) => chat'[s].sent = chat[s].sent]_vars
    /\ [][\A s \in Sessions :
             (mu_ = s /\ variant = "eventuals") =>
                 chat'[s].out = chat[s].out]_vars

\* A session emits its echoes while another session holds the lock.
C6_Witness ==
    \E s, t \in Sessions :
        /\ s # t
        /\ chat[s].pc = "emit"
        /\ chat[s].iter # <<>>
        /\ mu_ = t

\* C7: a RouteChat call is finished only from the state in which its reader
\* has reported the end of the inbound stream, and then it can always be
\* finished; at that point no echo of any inbound note is pending, and no
\* echo is written once the stream has ended or the call is finished.
C7_FinishOnlyAtEndOfInbound ==
    /\ [](\A s \in Sessions :
             chat[s].pc \in {"eos", "done"} =>
                 /\ chat[s].notes = <<>>
                 /\ chat[s].iter = <<>>
                 /\ mu_ # s)
    /\ [](\A s \in Sessions : chat[s].pc = "eos" => ENABLED ChatFinish(s))
    /\ [][\A s \in Sessions :
             (chat'[s].pc = "done" /\ chat[s].pc # "done") =>
                 chat[s].pc = "eos"]_vars
    /\ [][\A s \in Sessions :
             chat[s].pc \in {"eos", "done"} =>
                 /\ chat'[s].out = chat[s].out
                 /\ chat'[s].pc \in {"eos", "done"}]_vars

\* A call that read two notes and wrote an echo has been finished.
C7_Witness ==
    \E s \in Sessions :
        /\ chat[s].pc = "done"
        /\ Len(chat[s].sent) = 2
        /\ chat[s].out # <<>>

\* The received points at which the Feature Store lookup gives a name.
NamedCount(points, feature_list) ==
    Cardinality({i \in 1 .. Len(points) :
                    GetFeatureName(points[i], feature_list) # ""})

\* C8: after points P1..Pn, point_count = n and feature_count = the number
\* of i with a non-empty lookup of Pi, in the accumulators and in the summary.
C8_CountsMatchPoints ==
    \A c \in Calls :
        LET r == route[c] IN
        /\ r.pc = "open" =>
               /\ r.point_count = Len(r.points)
               /\ r.feature_count = NamedCount(r.points, feature_list_)
        /\ r.pc = "done" =>
               /\ r.summary.point_count = Len(r.points)
               /\ r.summary.feature_count = NamedCount(r.points, feature_list_)

\* A route of three points, one named, one with an empty name, one unlisted.
C8_Witness ==
    \E c \in Calls :
        /\ route[c].pc = "done"
        /\ route[c].summary.point_count = 3
        /\ route[c].summary.feature_count = 1
        /\ {route[c].points[i] : i \in 1 .. 3} = Points

\* The sum of the distances between consecutive points.
RECURSIVE PathLength(_)
PathLength(points) ==
    IF Len(points) < 2 THEN 0
    ELSE GetDistance(points[1], points[2]) + PathLength(Tail(points))

\* C9: the accumulated distance is the sum over consecutive points in
\* arrival order (0 for one point), `previous` is the last point, and the
\* summary carries the total truncated to whole metres.
C9_DistanceIsPathLength ==
    \A c \in Calls :
        LET r == route[c] IN
        /\ r.pc = "open" =>
               /\ r.distance = PathLength(r.points)
               /\ Len(r.points) = 1 => r.distance = 0
               /\ r.points # <<>> => r.previous = r.points[Len(r.points)]
        /\ r.pc = "done" =>
               r.summary.distance = PathLength(r.points) \div 1000000

\* Two legs, each shorter than a metre, add up to a summary of one metre.
C9_Witness ==
    \E c \in Calls :
        LET r == route[c] IN
        /\ r.pc = "done"
        /\ Len(r.points) = 3
        /\ r.points[1] # Point(0, 0)
        /\ GetDistance(r.points[1], r.points[2]) \in 1 .. 999999
        /\ GetDistance(r.points[2], r.points[3]) \in 1 .. 999999
        /\ r.summary.distance = 1

C11_OneSummaryAfterEnd ==
    /\ [](\A c \in Calls :
             LET r == route[c] IN
             /\ r.pc \in {"none", "open", "eos"} =>
                    r.out = <<>> /\ r.status = "none"
             /\ r.pc = "done" => r.out = <<r.summary>> /\ r.status = "OK")
    /\ [][\A c \in Calls :
             /\ route'[c].out # route[c].out =>
                    /\ route[c].pc \in {"open", "eos"}
                    /\ route'[c].pc = "done"
                    /\ route'[c].points = route[c].points
             /\ route[c].pc = "done" => route'[c] = route[c]]_vars
    /\ \A c \in Calls : (route[c].pc = "eos") ~> (route[c].pc = "done")

\* The eventuals build has sent the summary of a two-point route.
C11_Witness ==
    \E c \in Calls :
        /\ variant = "eventuals"
        /\ route[c].pc = "done"
        /\ Len(route[c].points) = 2
        /\ route[c].out = <<route[c].summary>>
        /\ route[c].summary.point_count = 2

\* C12: the accumulators of a RecordRoute call are its own: a call starts
\* from 0, 0, 0, its accumulators and its summary are those of its own points
\* alone however the points of other calls are interleaved, and a step of one
\* call leaves every other call's record as it was.
C12_AccumulatorsPerCall ==
    /\ [](\A c \in Calls :
             LET r == route[c] IN
             /\ (r.pc = "open" /\ r.points = <<>>) =>
                    r.point_count = 0 /\ r.feature_count = 0 /\ r.distance = 0
             /\ r.pc = "open" =>
                    /\ r.point_count = Len(r.points)
                    /\ r.feature_count = NamedCount(r.points, feature_list_)
                    /\ r.distance = PathLength(r.points)
             /\ r.pc \in {"eos", "done"} =>
                    /\ r.summary.point_count = Len(r.points)
                    /\ r.summary.feature_count =
                           NamedCount(r.points, feature_list_)
                    /\ r.summary.distance =
                           PathLength(r.points) \div 1000000)
    /\ [][\A c, d \in Calls :
             (c # d /\ route'[c] # route[c]) => route'[d] = route[d]]_vars

\* Two calls are open at once, one with two points read and one with one.
C12_Witness ==
    \E c, d \in Calls :
        /\ c # d
        /\ route[c].pc = "open" /\ route[d].pc = "open"
        /\ Len(route[c].points) = 2 /\ Len(route[d].points) = 1
        /\ route[c].distance > 0
        /\ route[c].feature_count # route[d].feature_count

\* x lies between a and b, whichever of the two is the smaller.
Between(x, a, b) == (a <= x /\ x <= b) \/ (b <= x /\ x <= a)

\* The location of f is inside the rectangle or on its border.
Inside(f, rectangle) ==
    /\ Between(f.location.longitude,
               rectangle.lo.longitude, rectangle.hi.longitude)
    /\ Between(f.location.latitude,
               rectangle.lo.latitude, rectangle.hi.latitude)

\* The entries of the store inside the rectangle, in store order.
InsideOf(feature_list, rectangle) ==
    SelectSeq(feature_list, LAMBDA f : Inside(f, rectangle))

\* The store entries Iterate has yielded so far.
Yielded(l) == SubSeq(feature_list_, 1, list[l].it - 1)

\* C13: a ListFeatures call emits exactly the store entries whose location
\* lies within the rectangle, borders included, each once and in store
\* order: the whole of them when the call is finished, and those among the
\* entries passed so far while it streams.
C13_ListEmitsInside ==
    \A l \in Calls :
        /\ list[l].pc \in {"none", "open"} => list[l].out = <<>>
        /\ list[l].pc = "iterate" =>
               list[l].out = InsideOf(Yielded(l), list[l].rectangle)
        /\ list[l].pc = "done" =>
               list[l].out = InsideOf(feature_list_, list[l].rectangle)

\* The two entries on the border of a rectangle were emitted in store
\* order and the two entries outside of it were not.
C13_Witness ==
    \E l \in Calls :
        /\ list[l].pc = "done"
        /\ list[l].rectangle = Rectangle(Point(0, 0), Point(0, 60))
        /\ Len(feature_list_) = 4
        /\ list[l].out = <<feature_list_[1], feature_list_[3]>>

\* The latitudes and the longitudes of the corners, as sets.
Latitudes(rectangle) == {rectangle.lo.latitude, rectangle.hi.latitude}
Longitudes(rectangle) == {rectangle.lo.longitude, rectangle.hi.longitude}

\* C14: two finished ListFeatures calls whose rectangles have the same two
\* latitudes and the same two longitudes, in whatever order and pairing the
\* corners carry them, have emitted the same sequence.
C14_CornerOrderIrrelevant ==
    \A k, l \in Calls :
        ( /\ list[k].pc = "done" /\ list[l].pc = "done"
          /\ Latitudes(list[k].rectangle) = Latitudes(list[l].rectangle)
          /\ Longitudes(list[k].rectangle) = Longitudes(list[l].rectangle) )
        => list[k].out = list[l].out

\* ListFeatures(lo = a, hi = b) and ListFeatures(lo = b, hi = a), a above
\* and to the left of b, have both emitted the four entries.
C14_Witness ==
    \E k, l \in Calls :
        /\ list[k].pc = "done" /\ list[l].pc = "done"
        /\ list[k].rectangle = Rectangle(Point(60, 0), Point(0, 60))
        /\ list[l].rectangle = Rectangle(Point(0, 60), Point(60, 0))
        /\ Len(list[k].out) = 4
        /\ list[l].out = list[k].out

\* C15: a ListFeatures call sends at most one message per store entry, is
\* finished with the status OK, also when nothing matched, sends nothing
\* after it is finished, and a call whose request was read is eventually
\* finished.
C15_ListTerminates ==
    /\ [](\A l \in Calls :
             /\ Len(list[l].out) <= Len(feature_list_)
             /\ list[l].pc # "done" =>
                    list[l].status = "none" /\ list[l].finish = 0
             /\ list[l].pc = "done" =>
                    list[l].status = "OK" /\ list[l].finish >= 1)
    /\ [][\A l \in Calls :
             list[l].pc = "done" =>
                 /\ list'[l].pc = "done"
                 /\ list'[l].out = list[l].out
                 /\ list'[l].status = list[l].status]_vars
    /\ \A l \in Calls : (list[l].pc = "iterate") ~> (list[l].pc = "done")

\* The eventuals build finished a call with an empty stream: the store has
\* entries and none is inside the rectangle.
C15_Witness ==
    \E l \in Calls :
        /\ variant = "eventuals"
        /\ list[l].pc = "done"
        /\ feature_list_ # <<>>
        /\ list[l].out = <<>>
        /\ list[l].status = "OK"

\* C16: a GetFeature call sends nothing before its request is handled and
\* then exactly one Feature, whose location is the requested point and whose
\* name is the result of the store lookup for it, with the status OK and a
\* single finishing action, whether or not the store has an entry there; a
\* reply the method has returned can always be sent.
C16_GetFeatureAnswersOnce ==
    /\ [](\A g \in Calls :
             LET c == feat[g] IN
             /\ c.pc \in {"none", "open", "reply"} =>
                    c.out = <<>> /\ c.status = "none" /\ c.finish = 0
             /\ c.pc \in {"reply", "done"} =>
                    /\ c.feature.location = c.point
                    /\ c.feature.name = GetFeatureName(c.point, feature_list_)
             /\ c.pc = "done" =>
                    c.out = <<c.feature>> /\ c.status = "OK" /\ c.finish = 1
             /\ c.pc = "reply" => ENABLED GetFinish(g))
    /\ [][\A g \in Calls : feat[g].pc = "done" => feat'[g] = feat[g]]_vars

\* A call for a point with no entry and a call for a point with one have
\* both been answered.
C16_Witness ==
    \E g, h \in Calls :
        /\ feat[g].pc = "done" /\ feat[h].pc = "done"
        /\ feat[g].point = Point(0, 0)
        /\ feat[g].out = <<Feature("", Point(0, 0))>>
        /\ feat[h].out = <<Feature("Tunnel", Point(0, 60))>>

\* The indices of the store entries located at the point.
HitsAt(point, feature_list) ==
    {i \in 1 .. Len(feature_list) : feature_list[i].location = point}

\* The name of the first entry located at the point, "" when there is none.
FirstNameAt(point, feature_list) ==
    LET hits == HitsAt(point, feature_list) IN
    IF hits = {} THEN ""
    ELSE feature_list[CHOOSE i \in hits : \A j \in hits : i <= j].name

\* C17: GetFeatureName of any point on the loaded store is the name of the
\* first entry, in store order, whose latitude and longitude both equal the
\* point's, and "" when there is none; so are the names the GetFeature
\* calls were answered with, and a non-empty answer is the name of an entry
\* at exactly that point.
C17_LookupFirstExactMatch ==
    /\ \A p \in Points \cup {Point(60, 60)} :
           GetFeatureName(p, feature_list_) = FirstNameAt(p, feature_list_)
    /\ \A g \in Calls :
           feat[g].pc \in {"reply", "done"} =>
               /\ feat[g].feature.name = FirstNameAt(feat[g].point, feature_list_)
               /\ feat[g].feature.name # "" =>
                      \E i \in HitsAt(feat[g].point, feature_list_) :
                          feature_list_[i].name = feat[g].feature.name

\* The point with two entries was answered with the name of the first, and
\* the point that shares only its latitude with that entry, and only its
\* longitude with another, was answered with the empty name.
C17_Witness ==
    \E g, h \in Calls :
        /\ Len(feature_list_) = 4
        /\ feat[g].pc = "done" /\ feat[h].pc = "done"
        /\ feat[g].point = Point(0, 60)
        /\ Cardinality(HitsAt(feat[g].point, feature_list_)) = 2
        /\ feat[g].feature.name = feature_list_[1].name
        /\ feat[h].point = Point(0, 0)
        /\ feat[h].feature.name = ""

\* C18: two answered GetFeature calls for the same point carry the same
\* name and location; an answer depends on nothing but the point and the
\* store, the store is never changed by a step of any operation, and an
\* answer once given is not changed by later steps of any call.
C18_GetFeatureIdempotent ==
    /\ [](\A g, h \in Calls :
             ( /\ feat[g].pc \in {"reply", "done"}
               /\ feat[h].pc \in {"reply", "done"}
               /\ feat[g].point = feat[h].point )
             => /\ feat[g].feature = feat[h].feature
                /\ (feat[g].pc = "done" /\ feat[h].pc = "done") =>
                       feat[g].out = feat[h].out)
    /\ [](\A g \in Calls :
             feat[g].pc \in {"reply", "done"} =>
                 feat[g].feature = GetFeature(feat[g].point, feature_list_))
    /\ [][feature_list_' = feature_list_]_vars
    /\ [][\A g \in Calls :
             feat[g].pc \in {"reply", "done"} =>
                 /\ feat'[g].feature = feat[g].feature
                 /\ feat'[g].point = feat[g].point]_vars

\* Two calls for the point of the "Tunnel" entry were both answered with it.
C18_Witness ==
    \E g, h \in Calls :
        /\ g # h
        /\ feat[g].pc = "done" /\ feat[h].pc = "done"
        /\ feat[g].point = feat[h].point
        /\ feat[g].out = <<Feature("Tunnel", Point(0, 60))>>
        /\ feat[h].out = feat[g].out

\* C19: no step of any operation changes the Feature Store, and a step that
\* changes the Notes Log is a step of a RouteChat call: it leaves every
\* GetFeature, ListFeatures and RecordRoute call as it was.
C19_StoreAndLogFrame ==
    /\ [][feature_list_' = feature_list_]_vars
    /\ [][(route' # route \/ feat' # feat \/ list' # list) =>
              (received_notes_' = received_notes_ /\ stale' = stale)]_vars
    /\ [][received_notes_' # received_notes_ =>
              \E s \in Sessions : chat'[s] # chat[s]]_vars

\* A GetFeature call was answered from a store with entries after a
\* RouteChat note had been stored.
C19_Witness ==
    /\ Len(feature_list_) = 4
    /\ Len(received_notes_) = 1
    /\ \E g \in Calls :
           /\ feat[g].pc = "done"
           /\ feat[g].out = <<Feature("Tunnel", Point(0, 60))>>

\* C20: with an empty Feature Store every GetFeature answer has the empty
\* name, every ListFeatures stream is empty, every RecordRoute has
\* feature_count 0 and point_count equal to the number of points read, and
\* the finished calls have the status OK.
C20_EmptyStoreDegrades ==
    feature_list_ = <<>> =>
        /\ \A g \in Calls :
               /\ feat[g].pc \in {"reply", "done"} => feat[g].feature.name = ""
               /\ feat[g].pc = "done" =>
                      feat[g].out = <<Feature("", feat[g].point)>>
                      /\ feat[g].status = "OK"
        /\ \A l \in Calls :
               /\ list[l].out = <<>>
               /\ list[l].pc = "done" => list[l].status = "OK"
        /\ \A c \in Calls :
               /\ route[c].feature_count = 0
               /\ route[c].pc = "open" =>
                      route[c].point_count = Len(route[c].points)
               /\ route[c].pc \in {"eos", "done"} =>
                      /\ route[c].summary.feature_count = 0
                      /\ route[c].summary.point_count = Len(route[c].points)
               /\ route[c].pc = "done" => route[c].status = "OK"

\* On an empty store a two-point route and a GetFeature call are finished.
C20_Witness ==
    /\ feature_list_ = <<>>
    /\ \E c, g \in Calls :
           /\ route[c].pc = "done"
           /\ route[c].summary.point_count = 2
           /\ route[c].summary.feature_count = 0
           /\ feat[g].pc = "done"
           /\ feat[g].out = <<Feature("", Point(60, 0))>>

\* A RouteChat or RecordRoute call is open and waits for its next message.
SomeCallWaits ==
    \/ \E s \in Sessions : chat[s].pc = "idle"
    \/ \E c \in Calls : route[c].pc = "open"

\* The next call of the operation with records f can be accepted: it has a
\* record left and the server has not reached the calls it may accept.
CanAccept(f) ==
    /\ Accepted < MaxAccepted
    /\ \E u \in DOMAIN f : f[u].pc = "none"

\* The record the next call of the operation with records f gets.
NextCall(f) ==
    CHOOSE u \in DOMAIN f :
        f[u].pc = "none" /\ \A v \in DOMAIN f : v < u => f[v].pc # "none"

Aborted == {"aborted", "aborted_waiting"}

\* C22: a RouteChat call ended by the transport leaves the shared state
\* consistent.  The step that ends it changes neither the Notes Log nor the
\* Feature Store nor the holder of the lock; the ended call does not hold
\* the lock; and with ended calls about, the log is still an interleaving of
\* the notes whose scan-and-append completed, each present once per
\* completed handling, a note that was waiting to be handled being absent.
C22_AbortLeavesStateConsistent ==
    /\ [][\A s \in Sessions :
             (chat'[s].pc \in Aborted /\ chat[s].pc \notin Aborted) =>
                 /\ received_notes_' = received_notes_
                 /\ stale' = stale
                 /\ feature_list_' = feature_list_
                 /\ mu_' = mu_]_vars
    /\ [](\A s \in Sessions : chat[s].pc \in Aborted => mu_ # s)
    /\ []((\E s \in Sessions : chat[s].pc \in Aborted) =>
             IsShuffle(received_notes_, [s \in Sessions |-> Appended(s)]))
    /\ [][\A s \in Sessions :
             chat[s].pc \in Aborted =>
                 /\ chat'[s] = chat[s]
                 /\ IsPrefix(received_notes_, received_notes_')]_vars

\* A call was ended with an echo still unwritten: both its notes are stored,
\* and another session's note was stored behind them.
C22_Witness ==
    \E s, t \in Sessions :
        /\ s # t
        /\ chat[s].pc = "aborted"
        /\ Len(chat[s].sent) = 2
        /\ chat[s].sent[1].location = chat[s].sent[2].location
        /\ chat[s].out = <<>>
        /\ chat[t].pc = "idle"
        /\ received_notes_ = chat[s].sent \o chat[t].sent
        /\ Len(chat[t].sent) = 1

\* A call was ended while its note waited for the Notes Log: the note is
\* not stored.
C22_WitnessWaiting ==
    \E s \in Sessions :
        /\ chat[s].pc = "aborted_waiting"
        /\ Len(chat[s].sent) = 1
        /\ received_notes_ # <<>>
        /\ \A i \in 1 .. Len(received_notes_) :
              received_notes_[i] # chat[s].sent[1]

\* C23: GetDistance(P, P) = 0 for every point P, and a RecordRoute call whose
\* points are all one point has accumulated, and reports, the distance 0.
C23_SamePointZeroDistance ==
    /\ \A p \in Points \cup {Point(60, 60)} : GetDistance(p, p) = 0
    /\ \A c \in Calls :
          LET r == route[c] IN
          (/\ r.points # <<>>
           /\ \A i \in 1 .. Len(r.points) : r.points[i] = r.points[1]) =>
              /\ r.distance = 0
              /\ r.pc \in {"eos", "done"} => r.summary.distance = 0
              /\ r.out # <<>> => r.out[1].distance = 0

\* A route of three times the same point, away from the origin, was reported
\* with three points and distance 0.
C23_Witness ==
    \E c \in Calls :
        LET r == route[c] IN
        /\ r.pc = "done"
        /\ r.points = <<Point(60, 0), Point(60, 0), Point(60, 0)>>
        /\ r.out = <<r.summary>>
        /\ r.summary.point_count = 3
        /\ r.summary.distance = 0

\* C24: in the eventuals build the buffer `notes` of a call is empty
\* whenever the call waits for a note, waits for the lock or begins a scan,
\* and what it holds during a scan are matches of the note being handled;
\* so every echo written or pending for the current note lies at that
\* note's location, whatever was matched for the notes before it.
C24_NotesEmptyAtScanStart ==
    variant = "eventuals" =>
        \A s \in Sessions :
            LET c == chat[s] IN
            /\ (c.pc \in {"none", "idle", "lock", "emit"}
                \/ (c.pc = "scan" /\ c.it = 1)) => c.notes = <<>>
            /\ c.sent # <<>> =>
                   LET echoes == EchoesOf(s) \o c.notes \o c.iter IN
                   \A i \in 1 .. Len(echoes) : SameLocation(echoes[i], c.note)

\* A call got an echo for its first note; its second note, at another
\* location, was handled and got none.
C24_Witness ==
    \E s \in Sessions :
        LET c == chat[s] IN
        /\ variant = "eventuals"
        /\ c.pc = "idle"
        /\ Len(c.sent) = 2
        /\ c.sent[1].location # c.sent[2].location
        /\ Len(c.out) = 1
        /\ c.out[1].location = c.sent[1].location
        /\ EchoesOf(s) = <<>>
        /\ Len(received_notes_) = 3

\* C25: within one RouteChat call the notes are handled one after the other
\* in arrival order.  The next note is taken up only when the call is idle:
\* every echo of the note before it has been written and that note is
\* stored behind the log it was scanned against.  The outbound stream only
\* grows at its end, by a match of the note in hand, so the echoes of the
\* k-th note all lie before those of the (k+1)-th.
C25_NotesHandledInArrivalOrder ==
    /\ [][\A s \in Sessions :
             chat'[s].sent # chat[s].sent =>
                 /\ chat[s].pc = "idle"
                 /\ chat[s].notes = <<>>
                 /\ chat[s].iter = <<>>
                 /\ chat'[s].sent = Append(chat[s].sent, chat'[s].note)
                 /\ chat'[s].mark = Len(chat[s].out)
                 /\ chat'[s].out = chat[s].out
                 /\ chat[s].sent # <<>> =>
                        /\ EchoesOf(s) = MatchesIn(chat[s].before, chat[s].note)
                        /\ IsPrefix(Append(chat[s].before, chat[s].note),
                                    received_notes_)]_vars
    /\ [][\A s \in Sessions :
             chat'[s].out # chat[s].out =>
                 /\ chat'[s].sent = chat[s].sent
                 /\ chat'[s].mark = chat[s].mark
                 /\ Len(chat[s].out) >= chat[s].mark
                 /\ \E n \in Notes :
                       /\ chat'[s].out = Append(chat[s].out, n)
                       /\ SameLocation(n, chat[s].note)]_vars

\* A call got one echo for its first note and two for its second, in that
\* order on its outbound stream.
C25_Witness ==
    \E s \in Sessions :
        LET c == chat[s] IN
        /\ c.pc = "idle"
        /\ Len(c.sent) = 2
        /\ c.mark = 1
        /\ Len(c.out) = 3
        /\ c.out[1] = received_notes_[1]
        /\ EchoesOf(s) = SubSeq(received_notes_, 1, 2)
        /\ received_notes_[2] = c.sent[1]
        /\ received_notes_[3] = c.sent[2]

\* The number of echoes written for the k-th note of session s.
EchoCount(s, k) ==
    LET c == chat[s] IN
    (IF k < Len(c.sent) THEN c.marks[k + 1] ELSE Len(c.out)) - c.marks[k]

\* The notes read so far that lie at location L, as <<session, index>>.
NotesAt(L) ==
    {sk \in Sessions \X (1 .. MaxInbound) :
        /\ sk[2] <= Len(chat[sk[1]].sent)
        /\ chat[sk[1]].sent[sk[2]].location = L}

\* Every call is waiting for a note or has ended in the regular way.
AllHandled == \A s \in Sessions : chat[s].pc \in {"none", "idle", "eos", "done"}

\* C26: once every note read has been handled, the m notes at one location
\* L are all in the Notes Log, equal ones as often as they were sent, and
\* their numbers of echoes are 0, 1, ..., m-1, each number for one note.
C26_EchoCountsAreZeroToMMinusOne ==
    AllHandled =>
        \A L \in {n.location : n \in Notes} :
            LET m == Cardinality(NotesAt(L)) IN
            /\ Len(SelectSeq(received_notes_, LAMBDA n : n.location = L)) = m
            /\ \A j \in 0 .. m - 1 :
                  Cardinality({sk \in NotesAt(L) :
                                  EchoCount(sk[1], sk[2]) = j}) = 1

\* Three notes at one location, two of them equal, were handled by two
\* sessions with the lock: they got 0, 1 and 2 echoes.
C26_LockedWitness ==
    /\ variant # "plain"
    /\ AllHandled
    /\ \E s, t \in Sessions :
          /\ s # t
          /\ Len(chat[s].sent) = 2 /\ Len(chat[t].sent) = 1
          /\ chat[s].sent[2] = chat[t].sent[1]
          /\ chat[s].sent[1].location = chat[t].sent[1].location
          /\ EchoCount(s, 1) = 0
          /\ EchoCount(t, 1) = 1
          /\ EchoCount(s, 2) = 2

\* C27: every call is finished once.  The finishing action of a GetFeature
\* or ListFeatures call is issued at most once, and exactly once when the
\* call is done; a finished RecordRoute call has sent its one summary; and
\* nothing is written to a call, and no call is finished again, after it
\* was finished, also when the null request comes in behind the response.
C27_FinishedExactlyOnce ==
    /\ [](\A c \in Calls :
             /\ feat[c].finish <= 1
             /\ feat[c].pc = "done" <=> feat[c].finish = 1
             /\ list[c].finish <= 1
             /\ list[c].pc = "done" <=> list[c].finish = 1
             /\ route[c].pc = "done" <=> route[c].status = "OK"
             /\ route[c].pc = "done" => Len(route[c].out) = 1)
    /\ [][\A c \in Calls :
             /\ feat[c].pc = "done" =>
                    feat'[c].out = feat[c].out /\ feat'[c].finish = feat[c].finish
             /\ list[c].pc = "done" =>
                    list'[c].out = list[c].out /\ list'[c].finish = list[c].finish
             /\ route[c].pc = "done" => route'[c] = route[c]]_vars
    /\ [][\A s \in Sessions :
             chat[s].pc = "done" => chat'[s] = chat[s]]_vars

\* The same with the null request of a ListFeatures call left aside: only
\* what the other handlers do is looked at.
C27_OthersFinishOnce ==
    /\ [](\A c \in Calls :
             /\ feat[c].finish <= 1
             /\ feat[c].pc = "done" <=> feat[c].finish = 1
             /\ variant # "handler" => list[c].finish <= 1
             /\ route[c].pc = "done" <=> route[c].status = "OK"
             /\ route[c].pc = "done" => Len(route[c].out) = 1)
    /\ [][\A c \in Calls :
             /\ feat[c].pc = "done" =>
                    feat'[c].out = feat[c].out /\ feat'[c].finish = feat[c].finish
             /\ list[c].pc = "done" => list'[c].out = list[c].out
             /\ route[c].pc = "done" => route'[c] = route[c]]_vars

\* C28: while a RecordRoute call is open, 0 <= feature_count <= point_count,
\* the distance is not negative, and `previous` is the point received last
\* once a point has been received; no step of the call lowers point_count,
\* feature_count or distance, and the summary is built from their last
\* values.
C28_AccumulatorsMonotone ==
    /\ [](\A c \in Calls :
             LET r == route[c] IN
             r.pc = "open" =>
                 /\ 0 <= r.feature_count
                 /\ r.feature_count <= r.point_count
                 /\ r.distance >= 0
                 /\ r.point_count >= 1 => r.previous = r.points[Len(r.points)])
    /\ [][\A c \in Calls :
             (route[c].pc = "open" /\ route'[c].pc = "open") =>
                 /\ route'[c].point_count >= route[c].point_count
                 /\ route'[c].feature_count >= route[c].feature_count
                 /\ route'[c].distance >= route[c].distance]_vars
    /\ [][\A c \in Calls :
             (route[c].pc = "open" /\ route'[c].pc # "open") =>
                 /\ route'[c].summary.point_count = route[c].point_count
                 /\ route'[c].summary.feature_count = route[c].feature_count
                 /\ route'[c].summary.distance * 1000000 <= route[c].distance]_vars

\* An open call has received three points, one of them named, over a path
\* of positive length.
C28_Witness ==
    \E c \in Calls :
        LET r == route[c] IN
        /\ r.pc = "open"
        /\ r.point_count = 3
        /\ r.feature_count = 1
        /\ r.distance > 0
        /\ r.previous = Point(60, 0)
        /\ r.points[2] # r.previous

\* What holds of the store entry i, without a name, at the point p: a lookup
\* of p gives the empty name, the GetFeature calls for p were answered with
\* it, a RecordRoute call that received only p has counted no feature, and
\* a finished ListFeatures call whose rectangle holds p has emitted the entry.
UnnamedIsNoFeature(i) ==
    LET p == feature_list_[i].location IN
    /\ GetFeatureName(p, feature_list_) = ""
    /\ \A g \in Calls :
          (feat[g].pc \in {"reply", "done"} /\ feat[g].point = p) =>
              feat[g].feature = Feature("", p)
    /\ \A c \in Calls :
          (\A k \in 1 .. Len(route[c].points) : route[c].points[k] = p) =>
              /\ route[c].feature_count = 0
              /\ route[c].pc \in {"eos", "done"} =>
                     route[c].summary.feature_count = 0
    /\ \A l \in Calls :
          (list[l].pc = "done" /\ Inside(feature_list_[i], list[l].rectangle)) =>
              \E k \in 1 .. Len(list[l].out) : list[l].out[k] = feature_list_[i]

\* C29 as claimed: every store entry with an empty name counts as no feature
\* for GetFeature and RecordRoute at its location, and is still emitted by
\* ListFeatures.
C29_UnnamedEntryIsNoFeature ==
    \A i \in 1 .. Len(feature_list_) :
        feature_list_[i].name = "" => UnnamedIsNoFeature(i)

\* C29 as amended: the same of every entry with an empty name that is the
\* first entry of the store at its location, whatever follows it there.
C29_FirstUnnamedEntryIsNoFeature ==
    \A i \in 1 .. Len(feature_list_) :
        ( /\ feature_list_[i].name = ""
          /\ \A j \in 1 .. i - 1 :
                feature_list_[j].location # feature_list_[i].location )
        => UnnamedIsNoFeature(i)

\* The unnamed entry has a named one behind it at its point: a route through
\* that point counted no feature and ListFeatures emitted both entries.
C29_Witness ==
    \E c, l \in Calls :
        /\ Len(feature_list_) = 4
        /\ feature_list_[2] = Feature("", Point(60, 0))
        /\ feature_list_[4].location = feature_list_[2].location
        /\ route[c].pc = "done"
        /\ route[c].points = <<Point(60, 0), Point(60, 0)>>
        /\ route[c].summary.feature_count = 0
        /\ list[l].pc = "done"
        /\ list[l].out = <<feature_list_[2], feature_list_[4]>>

\* The store entries located at p, in store order.
EntriesAt(p, feature_list) == SelectSeq(feature_list, LAMBDA f : f.location = p)

\* C30: a ListFeatures call with lo = hi = p emits exactly the store entries
\* located at p, in store order; when the lookup of p gives a non-empty
\* name the stream is not empty and its first element is the feature with
\* that name at p, the one a GetFeature call for p is answered with.
C30_DegenerateRectangle ==
    /\ \A p \in Points \cup {Point(60, 60)} :
          LET out == WriteMatching(feature_list_, Rectangle(p, p)) IN
          /\ out = EntriesAt(p, feature_list_)
          /\ GetFeatureName(p, feature_list_) # "" =>
                 out # <<>> /\ out[1] = GetFeature(p, feature_list_)
    /\ \A l \in Calls :
          (list[l].pc = "done" /\ list[l].rectangle.lo = list[l].rectangle.hi) =>
              LET p == list[l].rectangle.lo IN
              /\ list[l].out = EntriesAt(p, feature_list_)
              /\ GetFeatureName(p, feature_list_) # "" =>
                     /\ list[l].out # <<>>
                     /\ list[l].out[1].name = GetFeatureName(p, feature_list_)
                     /\ list[l].out[1].location = p
              /\ \A g \in Calls :
                    ( /\ feat[g].pc = "done"
                      /\ feat[g].point = p
                      /\ feat[g].feature.name # "" ) =>
                        list[l].out # <<>> /\ list[l].out[1] = feat[g].out[1]

\* ListFeatures(p, p) at the point with two entries emitted both, and the
\* GetFeature call for p was answered with the first of them.
C30_Witness ==
    \E l, g \in Calls :
        /\ list[l].pc = "done"
        /\ list[l].rectangle = Rectangle(Point(0, 60), Point(0, 60))
        /\ Len(list[l].out) = 2
        /\ list[l].out[1] # list[l].out[2]
        /\ feat[g].pc = "done"
        /\ feat[g].out = <<list[l].out[1]>>

\* The client's call has come to its end.
CallOver(name) == call.name = name /\ client.pc = "done"

\* C31: the sample chat, alone against a server whose log is empty: the
\* server answers nothing to the first three notes and answers the fourth
\* with the first, the log fills with the notes in the order sent, and when
\* the call is over the client has received that one echo, "First message"
\* at (0,0), and the log holds the four notes.
C31_SampleChat ==
    call.name = "RouteChat" =>
        /\ \E n \in 0 .. Len(call.written) :
              received_notes_ = SubSeq(call.written, 1, n)
        /\ call.written = SubSeq(DemoNotes, 1, Len(call.written))
        /\ \A k \in 1 .. Len(chat[1].marks) : chat[1].marks[k] = 0
        /\ Len(chat[1].sent) < Len(DemoNotes) => chat[1].out = <<>>
        /\ \A k \in 1 .. Len(chat[1].out) :
              k = 1 /\ chat[1].out[k] = RouteNote(Point(0, 0), "First message")
        /\ \A k \in 1 .. Len(call.received) : call.received[k] = chat[1].out[k]
        /\ client.pc = "done" =>
              /\ call.received = <<RouteNote(Point(0, 0), "First message")>>
              /\ received_notes_ = DemoNotes
              /\ chat[1].sent = DemoNotes

C31_Witness ==
    /\ CallOver("RouteChat")
    /\ Len(call.received) = 1
    /\ Len(received_notes_) = Len(DemoNotes)

\* A call of main that has ended with a status other than OK.
Failed(k) == client.calls[k].status \notin {"none", "OK"}

\* main has gone past its k-th call.
Past(k) == k < Len(client.calls) \/ client.pc \in {"run", "returned"}

\* C32: in the clients written with Client::Handler, a call that has ended
\* with a status other than OK is the last call main starts, and once main
\* has gone past it main has reported the failure and has returned
\* EXIT_FAILURE.
C32_FailedCallEndsMain ==
    Inspects(client.kind) =>
        \A k \in 1 .. Len(client.calls) :
            Failed(k) /\ Past(k) =>
                /\ k = Len(client.calls)
                /\ client.pc = "returned"
                /\ client.exit = "EXIT_FAILURE"
                /\ client.reports[k] = "failed"

\* The place of a demo in the order of main.
DemoRank(name) ==
    CASE name = "GetFeature" -> 1
      [] name = "ListFeatures" -> 2
      [] name = "RecordRoute" -> 3
      [] name = "RouteChat" -> 4

Outstanding(k) == client.calls[k].status = "none"

\* C33: every client makes its calls one after another in the order
\* GetFeature, ListFeatures, RecordRoute, RouteChat: all calls but the last
\* one started have ended, main is blocked while a call is outstanding, and
\* the lookup of (0,0) is started only when the lookup of
\* (409146138,-746188906) has ended.
C33_OneCallAtATime ==
    /\ \A k \in 1 .. Len(client.calls) :
          /\ Outstanding(k) => k = Len(client.calls) /\ client.pc = "blocked"
          /\ client.calls[k].name = Demos(client.kind)[k].name
          /\ client.calls[k].args = Demos(client.kind)[k].args
          /\ k > 1 => DemoRank(client.calls[k - 1].name)
                         <= DemoRank(client.calls[k].name)
          /\ client.calls[k].args = <<Point(0, 0)>> =>
                \E j \in 1 .. k - 1 :
                    /\ client.calls[j].args = <<Point(409146138, -746188906)>>
                    /\ ~Outstanding(j)
    /\ Cardinality({k \in 1 .. Len(client.calls) : Outstanding(k)}) <= 1

C33_Witness ==
    /\ client.pc = "blocked"
    /\ LastCall.name = "RouteChat"
    /\ Outstanding(Len(client.calls))
    /\ \E k \in 1 .. Len(client.calls) : client.calls[k].status = "UNAVAILABLE"

\* The locations of the entries of the client's own feature list.
OwnLocations ==
    {client.feature_list[i].location : i \in 1 .. Len(client.feature_list)}

\* The client's side of RecordRoute: what it writes, when it closes its
\* side, and when it reads.
RouteWrittenFrom(S) ==
    /\ Len(call.written) <= kPoints
    /\ \A k \in 1 .. Len(call.written) : call.written[k] \in S
    /\ call.writes_done <= 1
    /\ call.writes_done = 1 => Len(call.written) = kPoints
    /\ call.received # <<>> => call.writes_done = 1
    /\ client.pc \in {"read", "finish", "done"} => call.writes_done = 1
    /\ client.pc # "crashed"

\* C34: the client's RecordRoute writes kPoints points, each the location of
\* an entry of its own feature list, closes its side once, behind the last
\* point, and reads the summary only then; with an own list that is not
\* empty the summary it has received when the call is over counts kPoints
\* points and at most kPoints features.
C34_RouteOfTenOwnPoints ==
    call.name = "RecordRoute" =>
        /\ RouteWrittenFrom(OwnLocations)
        /\ CallOver("RecordRoute") /\ client.feature_list # <<>> =>
              /\ Len(call.received) = 1
              /\ call.received[1].point_count = kPoints
              /\ call.received[1].feature_count <= kPoints

\* The same for the clients whose own feature list has an entry.
C34_WithOwnList ==
    call.name = "RecordRoute" /\ client.feature_list # <<>> =>
        /\ RouteWrittenFrom(OwnLocations)
        /\ CallOver("RecordRoute") =>
              /\ Len(call.received) = 1
              /\ call.received[1].point_count = kPoints
              /\ call.received[1].feature_count <= kPoints
              /\ call.received[1] = route[1].summary

C34_WithOwnListWitness ==
    /\ CallOver("RecordRoute")
    /\ client.feature_list # <<>>
    /\ call.received[1].feature_count \in 1 .. kPoints - 1

\* No call has reached the method.
Unused(name) ==
    CASE name = "GetFeature" -> feat = [g \in Calls |-> NewGet]
      [] name = "ListFeatures" -> list = [l \in Calls |-> NewList]
      [] name = "RecordRoute" -> route = [c \in Calls |-> NewRoute]
      [] name = "RouteChat" -> chat = [s \in Sessions |-> NewChat]

\* C37: the call the client makes under an RPC name is handled by the
\* method of that name and by no other, on the messages of that call: the
\* methods of the other names are never entered, GetFeature and
\* ListFeatures have run on the one request the client wrote when they have
\* a result, RecordRoute and RouteChat have read a prefix of what the client
\* wrote, and GetFeature and RecordRoute send one response, no more, which
\* is there when the call is done.
C37_DispatchOneToOne ==
    call.name # "none" =>
        /\ \A name \in RpcNames \ {call.name} : Unused(name)
        /\ call.name = "GetFeature" =>
              /\ \A g \in Calls : g > 1 => feat[g] = NewGet
              /\ feat[1].pc \in {"reply", "done"} =>
                    /\ call.written = <<feat[1].point>>
                    /\ feat[1].feature = GetFeature(call.written[1], feature_list_)
              /\ Len(feat[1].out) <= 1
              /\ feat[1].pc = "done" => feat[1].out = <<feat[1].feature>>
              /\ feat[1].pc # "done" => feat[1].out = <<>>
        /\ call.name = "ListFeatures" =>
              /\ \A l \in Calls : l > 1 => list[l] = NewList
              /\ list[1].pc \notin {"none", "open"} =>
                    call.written = <<list[1].rectangle>>
        /\ call.name = "RecordRoute" =>
              /\ \A c \in Calls : c > 1 => route[c] = NewRoute
              /\ IsPrefix(route[1].points, call.written)
              /\ Len(route[1].out) <= 1
              /\ route[1].pc = "done" => route[1].out = <<route[1].summary>>
              /\ route[1].pc # "done" => route[1].out = <<>>
        /\ call.name = "RouteChat" =>
              /\ \A s \in Sessions : s > 1 => chat[s] = NewChat
              /\ IsPrefix(chat[1].sent, call.written)

C37_Witness ==
    /\ CallOver("GetFeature")
    /\ call.written = <<Point(409146138, -746188906)>>
    /\ call.received = <<Feature("", Point(409146138, -746188906))>>
    /\ Unused("ListFeatures")

\* The writes of RecordRoute in the client with plain callbacks: only the
\* last Write can have failed, WritesDone is issued once, behind the writes,
\* `done` is notified at most once, with the status of the call, and a call
\* that did not start is cancelled and finished with nothing written.
WritesStopAtFailure ==
    /\ \A k \in 1 .. Len(call.results) :
          call.results[k] # "Ok" => k = Len(call.results)
    /\ call.writes_done <= 1
    /\ call.writes_done = 1 =>
          \/ Len(call.written) = kPoints
          \/ call.results[Len(call.results)] # "Ok"
    /\ thr.start = "returned" /\ call.ok = "true" => call.writes_done = 1
    /\ Len(thr.done) <= 1
    /\ \A k \in 1 .. Len(thr.done) : thr.done[k] = call.status
    /\ thr.main = "returned" => thr.done # <<>> /\ thr.status = call.status
    /\ call.ok = "false" =>
          /\ call.written = <<>>
          /\ call.writes_done = 0
          /\ thr.start = "returned" => call.cancelled = 1 /\ call.finish = 1

\* C35: RecordRoute of the client with plain callbacks stops writing at the
\* first Write that fails, still issues WritesDone once, and the call comes
\* to its end with `done` notified once with the status of the call: the
\* process does not stop before that; a call that failed to start writes
\* nothing and is cancelled and finished.
C35_BrokenStreamStillCompletes ==
    client.demo = "RecordRoute" /\ call.name # "none" =>
        /\ WritesStopAtFailure
        /\ ~Dead

\* What holds of it: everything but the end of the call on a broken stream.
C35_WritesStopAtFailure ==
    client.demo = "RecordRoute" /\ call.name # "none" => WritesStopAtFailure

C35_StopWitness ==
    /\ client.demo = "RecordRoute"
    /\ thr.main = "returned"
    /\ Len(call.written) \in 1 .. kPoints - 1
    /\ call.writes_done = 1
    /\ thr.done = <<"UNAVAILABLE">>

\* C36: RouteChat of the client with plain callbacks, on every interleaving
\* of main, the start callback and the writer thread: main calls
\* writer.join() on a thread that has been started, so the process is not
\* terminated there; WritesDoneAndFinish comes behind the four notes; and
\* main returns only when `done` has been notified with the status of the
\* call.
C36_JoinAfterStart ==
    client.demo = "RouteChat" /\ call.name # "none" =>
        /\ thr.main # "terminated"
        /\ thr.main \in {"wait", "returned"} => thr.writer = "exited"
        /\ call.writes_done > 0 => call.written = DemoNotes
        /\ call.writes_done <= 1
        /\ thr.main = "returned" =>
              thr.done # <<>> /\ thr.status = call.status

\* What holds of it: the order inside the writer thread and the wait for
\* the status, whenever main gets past writer.join().
C36_WriterOrder ==
    client.demo = "RouteChat" /\ call.name # "none" =>
        /\ thr.main \in {"wait", "returned"} => thr.writer = "exited"
        /\ call.writes_done > 0 => call.written = DemoNotes
        /\ call.writes_done <= 1
        /\ thr.main = "returned" =>
              thr.done # <<>> /\ thr.status = call.status

C36_WriterOrderWitness ==
    /\ client.demo = "RouteChat"
    /\ thr.main = "returned"
    /\ thr.writer = "exited"
    /\ thr.status = "OK"

====
